---- MODULE Spec2Model ----
(***************************************************************************)
(* Model of the plate-text extraction of PlacaInador:                      *)
(*   validateMexicanPlate / MEXICAN_PLATE_PATTERNS and detectPlateWithOCR  *)
(*   of plate-detector/server/api/analyze-plate-enhanced.post.js.          *)
(* A JavaScript string is a sequence of one-character strings.             *)
(***************************************************************************)
EXTENDS Integers, Sequences, FiniteSets, TLC

VARIABLES
  parts,         \* the OCR text as <<before, middle, after>>: text is their concatenation
  text,          \* validateMexicanPlate: the argument
  vpc,           \* validateMexicanPlate: "call" before the call, "done" after
  cleanText,     \* validateMexicanPlate: the local cleanText (line 263)
  patMatches,    \* the value of the local `matches` for each pattern (line 274)
  pushed,        \* the array candidates when the loop ends (line 298)
  candidates,    \* the array candidates when the function returns
  plate,         \* the returned value
  variations,    \* detectPlateWithOCR: the variant name of each enhancementVariations entry
  idx,           \* detectPlateWithOCR: the loop index i (1-based)
  ocrResults,    \* detectPlateWithOCR: the array ocrResults
  detection,     \* detectPlateWithOCR: the returned object
  dpc,           \* detectPlateWithOCR: "start", "ocr", "done"
  hasVehicle,    \* the handler: vehicleDetection.hasVehicle (line 452)
  outputs,       \* what preprocessing and Tesseract give each of the three calls
  calls,         \* the three detectPlateWithOCR calls of Promise.all (lines 451-457)
  settled,       \* the calls in the order in which their promises settled
  plateDetection,\* the handler: plateDetection (line 459)
  response,      \* the handler: the plate fields of response (lines 481-484)
  rpc,           \* the handler: "idle", "detecting", "done"
  lastIndex,     \* the lastIndex of each regex of MEXICAN_PLATE_PATTERNS
  ncalls,        \* the calls of validateMexicanPlate made on this module so far
  now,           \* Date.now(), in milliseconds
  wss,           \* websocket.js: the module-level wss (line 3): 0 for null, else
                 \* the number of the WebSocketServer created
  clients,       \* websocket.js: the Map clients, clientId -> socket (line 4)
  sockets,       \* the sockets that connected: readyState, sessionId, the
                 \* clientId of their handlers' closure, what was sent to them
  cast,          \* the last call of broadcastToSession: its number and sessionId
  logs,          \* ProcessingLogger: this.logs (line 16)
  processedImages, \* ProcessingLogger: this.processedImages (line 17)
  logCalls,      \* the calls of log, info, success, warning, error so far
  gotLogs,       \* the array a caller got from getLogs, as the caller left it
  saves,         \* the calls of saveProcessedImage: filename, stepName, position
  processingDir, \* public/processing: filename -> the save that wrote the file
  tmp,           \* /tmp: path -> the detectPlateWithOCR call that wrote the file
  ocr,           \* the detectPlateWithOCR calls of one request, by position in
                 \* the Promise.all array
  bboxes,        \* the vehicleBbox argument of each of these calls
  handler,       \* the request handlers of the two endpoints that have been
                 \* called: endpoint, position, imagePath
  carDetectionModel, \* the module variable: 0 is null, else the instance
  loads,         \* how many times cocoSsd.load has been invoked
  loaders,       \* the calls of loadCarDetectionModel: position, result
  vehicleBbox,   \* preprocessImageForPlateDetection: the argument
  imageMetadata, \* metadata: the width and height of the image
  cropParams,    \* the rectangle computed at lines 106-122
  selectedFile,  \* index.vue: the refs of the page
  selectedFileName,
  selectedImage,
  selectedGalleryImage,
  pageError,
  pending,       \* the fetches and FileReaders that have not completed
  latest         \* the most recent upload, gallery selection or clear

vars == <<parts, text, vpc, cleanText, patMatches, pushed, candidates, plate,
          variations, idx, ocrResults, detection, dpc,
          hasVehicle, outputs, calls, settled, plateDetection, response, rpc,
          lastIndex, ncalls,
          now, wss, clients, sockets, cast,
          logs, processedImages, logCalls, gotLogs, saves, processingDir,
          tmp, ocr, bboxes, handler, carDetectionModel, loads, loaders,
          vehicleBbox, imageMetadata, cropParams,
          selectedFile, selectedFileName, selectedImage, selectedGalleryImage,
          pageError, pending, latest>>

valVars == <<parts, text, vpc, cleanText, patMatches, pushed, candidates, plate>>
detVars == <<variations, idx, ocrResults, detection, dpc>>
reqVars == <<hasVehicle, outputs, calls, settled, plateDetection, response, rpc>>
modVars == <<lastIndex, ncalls>>
coreVars == <<valVars, detVars, reqVars, modVars>>
wsVars == <<wss, clients, sockets, cast>>

\* everything outside the extraction and the request handler
logVars == <<logs, processedImages, logCalls, gotLogs, saves, processingDir>>

fileVars == <<tmp, ocr, bboxes, handler>>

loadVars == <<carDetectionModel, loads, loaders>>

cropVars == <<vehicleBbox, imageMetadata, cropParams>>

pageVars == <<selectedFile, selectedFileName, selectedImage,
              selectedGalleryImage, pageError, pending, latest>>

\* everything outside the extraction and the request handler
auxVars == <<now, wsVars, logVars, fileVars, loadVars, cropVars, pageVars>>

\* everything but the clock and the named group
withoutWs == <<coreVars, logVars, fileVars, loadVars, cropVars, pageVars>>
withoutLog == <<coreVars, wsVars, fileVars, loadVars, cropVars, pageVars>>
withoutFile == <<coreVars, now, wsVars, logVars, loadVars, cropVars, pageVars>>
withoutLoad == <<coreVars, now, wsVars, logVars, fileVars, cropVars, pageVars>>
withoutCrop == <<coreVars, now, wsVars, logVars, fileVars, loadVars, pageVars>>
withoutPage == <<coreVars, now, wsVars, logVars, fileVars, loadVars, cropVars>>

\* no request has uploaded a file
FileIdle ==
  /\ tmp = <<>>
  /\ ocr = <<>>
  /\ bboxes = <<>>
  /\ handler = <<>>

\* let carDetectionModel = null (enhanced line 11), no call yet
LoadIdle ==
  /\ carDetectionModel = 0
  /\ loads = 0
  /\ loaders = <<>>

\* null or undefined where an object is expected
Nothing == [nothing |-> TRUE]

\* preprocessImageForPlateDetection has not been called
CropIdle ==
  /\ vehicleBbox = <<>>
  /\ imageMetadata = [width |-> 0, height |-> 0]
  /\ cropParams = Nothing

\* index.vue lines 66-83, the refs as they are declared: ref(null); null
\* is Nothing for a ref that holds an object and "null" for one that
\* holds a string
PageIdle ==
  /\ selectedFile = Nothing
  /\ selectedFileName = "null"
  /\ selectedImage = "null"
  /\ selectedGalleryImage = Nothing
  /\ pageError = "null"
  /\ pending = <<>>
  /\ latest = [action |-> "none", name |-> "null", op |-> 0]

\* a ProcessingLogger just constructed (lines 14-19)
LogIdle ==
  /\ logs = <<>>
  /\ processedImages = <<>>
  /\ logCalls = <<>>
  /\ gotLogs = <<>>
  /\ saves = <<>>
  /\ processingDir = <<>>

\* no WebSocket server, no client
WsIdle ==
  /\ wss = 0
  /\ clients = <<>>
  /\ sockets = <<>>
  /\ cast = [n |-> 0, sessionId |-> "none"]

AuxIdle ==
  /\ now = 0
  /\ WsIdle
  /\ LogIdle
  /\ FileIdle
  /\ LoadIdle
  /\ CropIdle
  /\ PageIdle

(***************************************************************************)
(* Characters                                                              *)
(***************************************************************************)
UpperSeq == <<"A","B","C","D","E","F","G","H","I","J","K","L","M",
              "N","O","P","Q","R","S","T","U","V","W","X","Y","Z">>
LowerSeq == <<"a","b","c","d","e","f","g","h","i","j","k","l","m",
              "n","o","p","q","r","s","t","u","v","w","x","y","z">>
Upper  == {UpperSeq[i] : i \in 1..26}
Lower  == {LowerSeq[i] : i \in 1..26}
Digits == {"0","1","2","3","4","5","6","7","8","9"}
Spaces == {" ", "\t", "\n"}

\* the JavaScript null
Null == <<"null">>

\* String.prototype.toUpperCase on one character
UpperChar(c) ==
  IF c \in Lower THEN UpperSeq[CHOOSE i \in 1..26 : LowerSeq[i] = c] ELSE c

toUpperCase(s) == [i \in 1..Len(s) |-> UpperChar(s[i])]

(***************************************************************************)
(* The cleaning chain of validateMexicanPlate                              *)
(***************************************************************************)
\* .replace(/[^A-Z0-9-\s]/g, ''): the class has no i flag
KeptByFilter(c) == c \in Upper \/ c \in Digits \/ c = "-" \/ c \in Spaces

FilterChars(s) == SelectSeq(s, KeptByFilter)

\* does the literal tok match s at position i, ignoring case (flag i)
TokenAt(s, i, tok) ==
  /\ i + Len(tok) - 1 <= Len(s)
  /\ \A k \in 1..Len(tok) : UpperChar(s[i + k - 1]) = UpperChar(tok[k])

\* .replace(/tok/gi, ''): one left-to-right pass over non-overlapping matches
RECURSIVE RemoveFrom(_, _, _)
RemoveFrom(s, i, tok) ==
  IF i > Len(s) THEN <<>>
  ELSE IF TokenAt(s, i, tok) THEN RemoveFrom(s, i + Len(tok), tok)
  ELSE <<s[i]>> \o RemoveFrom(s, i + 1, tok)

RemoveToken(s, tok) == RemoveFrom(s, 1, tok)

TokPlatesmania == <<"p","l","a","t","e","s","m","a","n","i","a">>
TokWww == <<"w","w","w",".">>
TokCom == <<".","c","o","m">>

NotSpace(c) == c \notin Spaces

\* .replace(/\s+/g, '')
RemoveSpaces(s) == SelectSeq(s, NotSpace)

\* lines 263-269, in the order of the chain
CleanChain(s) ==
  toUpperCase(
    RemoveSpaces(
      RemoveToken(
        RemoveToken(
          RemoveToken(FilterChars(s), TokPlatesmania),
          TokWww),
        TokCom)))

(***************************************************************************)
(* Regular expressions: a pattern is a sequence of items, each a character *)
(* class with a greedy quantifier {min,max}                                *)
(***************************************************************************)
InClass(c, cls) ==
  IF cls = "L" THEN c \in Upper
  ELSE IF cls = "D" THEN c \in Digits
  ELSE c = "-"

Let(n)      == [cls |-> "L", min |-> n, max |-> n]
Dig(n)      == [cls |-> "D", min |-> n, max |-> n]
OptDash     == [cls |-> "-", min |-> 0, max |-> 1]
OptLet      == [cls |-> "L", min |-> 0, max |-> 1]
LetR(a, b)  == [cls |-> "L", min |-> a, max |-> b]
DigR(a, b)  == [cls |-> "D", min |-> a, max |-> b]

Pattern1 == <<Let(3), OptDash, Dig(2), OptDash, Dig(2)>>

\* a defect: /[A-Z]{3}-?\d{3}-?[A-Z]/g, the trailing letter required
Pattern2LetterRequired == <<Let(3), OptDash, Dig(3), OptDash, Let(1)>>

Pattern2 == <<Let(3), OptDash, Dig(3), OptDash, OptLet>>
Pattern3 == <<Let(3), OptDash, Dig(3), OptDash>>
Pattern4 == <<Let(3), OptDash, Dig(4)>>
Pattern5 == <<Let(3), Dig(4)>>
Pattern6 == <<Let(3), Dig(2), Let(2)>>
Pattern7 == <<Let(2), OptDash, Dig(3), OptDash, Let(2)>>
Pattern8 == <<Dig(2), OptDash, Let(2), OptDash, Dig(3)>>
Pattern9 == <<LetR(2, 3), DigR(2, 4), OptLet>>

MEXICAN_PLATE_PATTERNS ==
  <<Pattern1, Pattern2, Pattern3, Pattern4, Pattern5,
    Pattern6, Pattern7, Pattern8, Pattern9>>

\* how many characters from position i on are in cls, at most max
RECURSIVE RunOf(_, _, _, _)
RunOf(s, i, cls, max) ==
  IF max = 0 \/ i > Len(s) \/ ~InClass(s[i], cls) THEN 0
  ELSE 1 + RunOf(s, i + 1, cls, max - 1)

\* Backtracking match of items k.. of pat at position i of s: the position
\* after the match, or 0 when there is none. anch: the pattern ends with $.
RECURSIVE MatchAt(_, _, _, _, _)
RECURSIVE TryCount(_, _, _, _, _, _)
MatchAt(s, i, pat, k, anch) ==
  IF k > Len(pat)
  THEN (IF anch /\ i # Len(s) + 1 THEN 0 ELSE i)
  ELSE LET n == RunOf(s, i, pat[k].cls, pat[k].max)
       IN  IF n < pat[k].min THEN 0 ELSE TryCount(s, i, pat, k, anch, n)

\* greedy: the longest repetition first, then one less
TryCount(s, i, pat, k, anch, c) ==
  LET r == MatchAt(s, i + c, pat, k + 1, anch)
  IN  IF r # 0 THEN r
      ELSE IF c > pat[k].min THEN TryCount(s, i, pat, k, anch, c - 1)
      ELSE 0

\* a defect: the match is re-formatted, its dashes dropped
MatchTextNoDash(s, i, e) == SelectSeq(SubSeq(s, i, e - 1), LAMBDA c : c # "-")

\* the matched substring is returned as found
MatchText(s, i, e) == SubSeq(s, i, e - 1)

\* String.prototype.match with a global pattern: the non-overlapping
\* matches from left to right (the search restarts at lastIndex 0)
RECURSIVE MatchAll(_, _, _)
MatchAll(s, pat, i) ==
  IF i > Len(s) THEN <<>>
  ELSE LET e == MatchAt(s, i, pat, 1, FALSE)
       IN  IF e = 0 THEN MatchAll(s, pat, i + 1)
           ELSE <<MatchText(s, i, e)>> \o MatchAll(s, pat, e)

\* RegExp.prototype.exec with a global pattern: the first match at or after
\* position i, lastIndex left at its end, or at 0 when there is none
RECURSIVE ExecFrom(_, _, _)
ExecFrom(s, pat, i) ==
  IF i > Len(s) THEN [matches |-> <<>>, lastIndex |-> 0]
  ELSE LET e == MatchAt(s, i, pat, 1, FALSE)
       IN  IF e = 0 THEN ExecFrom(s, pat, i + 1)
           ELSE [matches |-> <<MatchText(s, i, e)>>, lastIndex |-> e - 1]

\* a defect: the pattern is applied with exec, which starts at the
\* lastIndex the previous call left
StringMatchExec(s, pat, li) == ExecFrom(s, pat, li + 1)

\* line 274, cleanText.match(pattern) on a regex whose lastIndex is li:
\* match sets lastIndex to 0, collects every match, and leaves it at 0
StringMatch(s, pat, li) == [matches |-> MatchAll(s, pat, 1), lastIndex |-> 0]

\* /^...$/.test(m)
Exactly(m, pat) == MatchAt(m, 1, pat, 1, TRUE) # 0

\* /000|111|...|999/.test(m) and /AAA|BBB|CCC/.test(m)
HasTriple(m, chars) ==
  \E i \in 1..(Len(m) - 2) : m[i] \in chars /\ m[i+1] = m[i] /\ m[i+2] = m[i]

Includes(m, c) == \E i \in 1..Len(m) : m[i] = c

(***************************************************************************)
(* Scoring (lines 278-291)                                                 *)
(***************************************************************************)
\* the exact formats of the if / else-if chain, anchored with ^ and $
FmtStandard   == <<Let(3), OptDash, Dig(2), OptDash, Dig(2)>>
FmtLetter     == <<Let(3), OptDash, Dig(3), OptDash, Let(1)>>
FmtIncomplete == <<Let(3), OptDash, Dig(3), OptDash>>
FmtLegacy     == <<Let(3), OptDash, Dig(4)>>
FmtFederal    == <<Let(2), OptDash, Dig(3), OptDash, Let(2)>>
FmtPartial    == <<LetR(2, 3), DigR(2, 4), OptLet>>

\* a defect: the generic shape is tested before the federal one, which
\* then never scores
BaseScoreGenericFirst(m) ==
  IF Exactly(m, FmtStandard) THEN 100
  ELSE IF Exactly(m, FmtLetter) THEN 90
  ELSE IF Exactly(m, FmtPartial) THEN 60
  ELSE IF Exactly(m, FmtIncomplete) THEN 85
  ELSE IF Exactly(m, FmtLegacy) THEN 80
  ELSE IF Exactly(m, FmtFederal) THEN 85
  ELSE 50

\* lines 280-286, in the order of the code
BaseScore(m) ==
  IF Exactly(m, FmtStandard) THEN 100
  ELSE IF Exactly(m, FmtLetter) THEN 90
  ELSE IF Exactly(m, FmtIncomplete) THEN 85
  ELSE IF Exactly(m, FmtLegacy) THEN 80
  ELSE IF Exactly(m, FmtFederal) THEN 85
  ELSE IF Exactly(m, FmtPartial) THEN 60
  ELSE 50

\* a defect: every repeated letter is penalised
AdjustmentsAnyLetter(m) ==
    (IF Includes(m, "-") THEN 10 ELSE 0)
  - (IF HasTriple(m, Digits) THEN 20 ELSE 0)
  - (IF HasTriple(m, Upper) THEN 15 ELSE 0)

\* lines 288-291
Adjustments(m) ==
    (IF Includes(m, "-") THEN 10 ELSE 0)
  - (IF HasTriple(m, Digits) THEN 20 ELSE 0)
  - (IF HasTriple(m, {"A", "B", "C"}) THEN 15 ELSE 0)

Score(m) == BaseScore(m) + Adjustments(m)

\* a defect: the lower limit of the standalone copy, 5
InWindowFromFive(m) == Len(m) >= 5 /\ Len(m) <= 10

\* line 277
InWindow(m) == Len(m) >= 6 /\ Len(m) <= 10

\* lines 276-294: the candidates one pattern's matches push
Scored(ms) ==
  LET kept == SelectSeq(ms, InWindow)
  IN  [j \in 1..Len(kept) |-> [plate |-> kept[j], score |-> Score(kept[j])]]

RECURSIVE Flatten(_)
Flatten(ss) == IF ss = <<>> THEN <<>> ELSE Head(ss) \o Flatten(Tail(ss))

(***************************************************************************)
(* Array.prototype.sort as Node's V8 runs it on an array of fewer than 64  *)
(* elements: the leading run is found (and reversed when it descends),     *)
(* then the rest is inserted by binary insertion. With a consistent        *)
(* comparator this is a stable sort.                                       *)
(***************************************************************************)
\* a defect: ascending by score
ScoreCompareAscending(a, b) == a.score - b.score

\* line 300: (a, b) => b.score - a.score
ScoreCompare(a, b) == b.score - a.score

\* a defect: the confidence is ignored, the first variant pushed stays first
OcrCompareKeepOrder(a, b) == 0

\* lines 373-378; confidences are kept in hundredths, so 0.1 is 10
OcrCompare(a, b) ==
  LET d == a.confidence - b.confidence
      ad == IF d < 0 THEN -d ELSE d
  IN  IF ad < 10
      THEN (IF a.source = "enfocada" THEN -1 ELSE 1)
      ELSE b.confidence - a.confidence

Compare(kind, a, b) ==
  IF kind = "score" THEN ScoreCompare(a, b) ELSE OcrCompare(a, b)

\* the index of the last element of the run that starts at a[1]
RECURSIVE RunEnd(_, _, _, _)
RunEnd(a, kind, desc, i) ==
  IF i = Len(a) THEN i
  ELSE LET order == Compare(kind, a[i + 1], a[i])
       IN  IF (desc /\ order >= 0) \/ (~desc /\ order < 0) THEN i
           ELSE RunEnd(a, kind, desc, i + 1)

Reverse(a) == [i \in 1..Len(a) |-> a[Len(a) + 1 - i]]

\* where the pivot goes among a[left..right-1]
RECURSIVE InsertionPoint(_, _, _, _, _)
InsertionPoint(a, kind, pivot, left, right) ==
  IF left >= right THEN left
  ELSE LET mid == left + ((right - left) \div 2)
       IN  IF Compare(kind, pivot, a[mid]) < 0
           THEN InsertionPoint(a, kind, pivot, left, mid)
           ELSE InsertionPoint(a, kind, pivot, mid + 1, right)

\* a[1..start-1] is sorted; insert a[start], a[start+1], ...
RECURSIVE BinaryInsertionSort(_, _, _)
BinaryInsertionSort(a, kind, start) ==
  IF start > Len(a) THEN a
  ELSE LET pivot == a[start]
           at == InsertionPoint(a, kind, pivot, 1, start)
           b == SubSeq(a, 1, at - 1) \o <<pivot>> \o SubSeq(a, at, start - 1)
                \o SubSeq(a, start + 1, Len(a))
       IN  BinaryInsertionSort(b, kind, start + 1)

Sort(a, kind) ==
  IF Len(a) < 2 THEN a
  ELSE LET desc == Compare(kind, a[2], a[1]) < 0
           run == RunEnd(a, kind, desc, 2)
           b == IF desc
                THEN Reverse(SubSeq(a, 1, run)) \o SubSeq(a, run + 1, Len(a))
                ELSE a
       IN  BinaryInsertionSort(b, kind, run + 1)

(***************************************************************************)
(* validateMexicanPlate (lines 260-305)                                    *)
(***************************************************************************)
MinTextLength == 6

\* a defect: the last element of the sorted array is returned
BestOfLast(sorted) ==
  IF Len(sorted) > 0 THEN sorted[Len(sorted)].plate ELSE Null

\* lines 299-304
\* a defect: a best candidate below the lowest base score is withheld
BestOfUnpenalised(sorted) ==
  IF Len(sorted) > 0 /\ sorted[1].score >= 50 THEN sorted[1].plate ELSE Null

BestOf(sorted) == IF Len(sorted) > 0 THEN sorted[1].plate ELSE Null

\* a defect: text.length is read without testing text first, which throws
\* a TypeError when text is null
EntryNoNullTest(t, min) ==
  IF t = Null THEN "throw"
  ELSE IF Len(t) < min THEN "null"
  ELSE "run"

\* line 261, !text || text.length < min: "null" when the function returns
\* null at once, "run" when it goes on ("throw" would be an exception)
Entry(t, min) ==
  IF t = Null \/ t = <<>> THEN "null"
  ELSE IF Len(t) < min THEN "null"
  ELSE "run"

\* what a call that stops at its first line leaves
Stopped(entry, li) ==
  [ran |-> FALSE, threw |-> entry = "throw", clean |-> <<>>, matches |-> <<>>,
   pushed |-> <<>>, sorted |-> <<>>, plate |-> Null, lastIndex |-> li]

\* one call on a module whose regexes have the lastIndex values li: the
\* values of the locals, the returned value, and the lastIndex values left
validateOnModule(t, li) ==
  IF Entry(t, MinTextLength) # "run"
  THEN Stopped(Entry(t, MinTextLength), li)
  ELSE LET clean == CleanChain(t)
           rs == [k \in 1..Len(MEXICAN_PLATE_PATTERNS) |->
                    StringMatch(clean, MEXICAN_PLATE_PATTERNS[k], li[k])]
           ms == [k \in 1..Len(rs) |-> rs[k].matches]
           cands == Flatten([k \in 1..Len(ms) |-> Scored(ms[k])])
           sorted == Sort(cands, "score")
       IN  [ran |-> TRUE, threw |-> FALSE, clean |-> clean, matches |-> ms,
            pushed |-> cands, sorted |-> sorted, plate |-> BestOf(sorted),
            lastIndex |-> [k \in 1..Len(rs) |-> rs[k].lastIndex]]

\* the lastIndex values of a module that has just been loaded
FreshLastIndex == [k \in 1..Len(MEXICAN_PLATE_PATTERNS) |-> 0]

\* one call, the first on its module
validateMexicanPlate(t) == validateOnModule(t, FreshLastIndex)

(***************************************************************************)
(* The standalone validateMexicanPlate of app/components/                  *)
(* ProcessedImages.vue (lines 594-648): seven patterns, three more         *)
(* watermark tokens, a minimum of 5, a shorter scoring chain               *)
(***************************************************************************)
StandaloneMinTextLength == 5

TokMajor    == <<"m","a","j","o","r">>
TokKatz     == <<"k","a","t","z">>
TokGuerrero == <<"g","u","e","r","r","e","r","o">>

\* lines 607-616
StandaloneCleanChain(s) ==
  toUpperCase(
    RemoveSpaces(
      RemoveToken(
        RemoveToken(
          RemoveToken(
            RemoveToken(
              RemoveToken(
                RemoveToken(FilterChars(s), TokPlatesmania),
                TokWww),
              TokCom),
            TokMajor),
          TokKatz),
        TokGuerrero)))

\* lines 594-602
STANDALONE_PATTERNS ==
  <<Pattern1, Pattern2, Pattern3, Pattern4, Pattern5, Pattern6, Pattern9>>

\* lines 627-632
StandaloneScore(m) ==
    (IF Exactly(m, FmtStandard) THEN 100
     ELSE IF Exactly(m, FmtLetter) THEN 90
     ELSE IF Exactly(m, FmtIncomplete) THEN 85
     ELSE 50)
  + (IF Includes(m, "-") THEN 10 ELSE 0)

\* line 624
StandaloneInWindow(m) == Len(m) >= 5 /\ Len(m) <= 10

\* lines 623-636
StandaloneScored(ms) ==
  LET kept == SelectSeq(ms, StandaloneInWindow)
  IN  [j \in 1..Len(kept) |->
         [plate |-> kept[j], score |-> StandaloneScore(kept[j])]]

validateStandalone(t) ==
  IF Entry(t, StandaloneMinTextLength) # "run"
  THEN Stopped(Entry(t, StandaloneMinTextLength), <<>>)
  ELSE LET clean == StandaloneCleanChain(t)
           ms == [k \in 1..Len(STANDALONE_PATTERNS) |->
                    MatchAll(clean, STANDALONE_PATTERNS[k], 1)]
           cands == Flatten([k \in 1..Len(ms) |-> StandaloneScored(ms[k])])
           sorted == Sort(cands, "score")
       IN  [ran |-> TRUE, threw |-> FALSE, clean |-> clean, matches |-> ms,
            pushed |-> cands, sorted |-> sorted, plate |-> BestOf(sorted)]

(***************************************************************************)
(* Inputs                                                                  *)
(***************************************************************************)
MaxChunks == 4

\* pieces of plate-shaped text: letter runs, digit runs, the dash
Chunks == { <<"A","B","C">>,
            <<"A","B">>,
            <<"-">>,
            <<"1","2">>,
            <<"1","2","3">> }

RECURSIVE Concats(_)
Concats(n) ==
  IF n = 0 THEN {<<>>}
  ELSE LET prev == Concats(n - 1)
       IN  prev \cup {p \o c : p \in prev, c \in Chunks}

ChunkTexts == Concats(MaxChunks)

\* plate readings, among them the examples of the specification
PlateTexts == { <<"N","C","M","-","2","7","-","0","4">>,
                <<"N","C","M","2","7","0","4">>,
                <<"G","Z","W","-","0","0","2","-","A">>,
                <<"S","Z","H","-","0","0","2","-">>,
                <<"G","Z","W","-","0","0","2">>,
                <<"n","c","m","-","2","7","-","0","4">>,
                <<"G","z","w","-","0","0","2","-","a">>,
                <<"A","B","C","-","1","2","3","4">> }

\* the watermark tokens in lower, upper and mixed case, and spaces
WatermarkPads == { <<>>,
                   <<"p","l","a","t","e","s","m","a","n","i","a">>,
                   <<"P","L","A","T","E","S","M","A","N","I","A">>,
                   <<"P","l","a","t","e","s","M","a","n","i","a">>,
                   <<"w","w","w",".">>,
                   <<"W","W","W",".">>,
                   <<".","c","o","m">>,
                   <<".","C","O","M">>,
                   <<" ">>,
                   <<"p","l","a","t","e","s","m","a","n","i","a",".","c","o","m"," ">>,
                   <<" ","w","w","w",".">> }

\* further noise: punctuation, and halves of a token
OtherNoise == { <<"!">>,
                <<"?",".">>,
                <<"P","L","A","T","E","S">>,
                <<"M","A","N","I","A">> }

\* readings with repeated letters and repeated digits
TripleLetters ==
  {<<"A","A","A">>, <<"B","B","B">>, <<"C","C","C">>, <<"D","D","D">>, <<"X","X","X">>, <<"A","A","B">>}

TripleDigits ==
  {<<"1","1","1">>, <<"0","0","0">>, <<"1","2","3">>, <<"1","1","1","1">>, <<"1","2">>}

TripleTails ==
  {<<>>, <<"A">>, <<"-","A">>, <<"-","1","2">>}

TripleParts ==
  {<<l \o d, n, t>> : l \in TripleLetters, d \in {<<>>, <<"-">>},
                      n \in TripleDigits, t \in TripleTails}

\* readings that start with digits
DigitsFirstParts ==
  {<<d, l, n>> : d \in {<<"1","2">>, <<"1","2","-">>}, l \in {<<"A","B">>, <<"A","B","-">>},
                n \in {<<"3","3","3">>, <<"1","2","3">>, <<"0","0","0">>}}

NoisePieces == (WatermarkPads \ {<<>>}) \cup OtherNoise

InputParts ==
       {<<(<<>>), t, (<<>>)>> : t \in ChunkTexts \cup {Null}}
  \cup {<<a, p, b>> : a \in WatermarkPads, p \in PlateTexts, b \in WatermarkPads}
  \cup {<<a, b, c>> : a \in NoisePieces, b \in {<<>>, <<" ">>}, c \in NoisePieces}
  \cup TripleParts
  \cup DigitsFirstParts

(***************************************************************************)
(* One call of validateMexicanPlate                                        *)
(***************************************************************************)
\* no request is being handled
ReqIdle ==
  /\ hasVehicle = FALSE
  /\ outputs = <<>>
  /\ calls = <<>>
  /\ settled = <<>>
  /\ plateDetection = Null
  /\ response = Null
  /\ rpc = "idle"

\* the module has just been loaded: every regex has lastIndex 0
ModFresh ==
  /\ lastIndex = FreshLastIndex
  /\ ncalls = 0

DetIdle ==
  /\ variations = <<>>
  /\ idx = 0
  /\ ocrResults = <<>>
  /\ detection = Null
  /\ dpc = "idle"

Init ==
  /\ parts \in InputParts
  /\ text = (IF parts[2] = Null THEN Null ELSE Flatten(parts))
  /\ vpc = "call"
  /\ cleanText = <<>>
  /\ patMatches = <<>>
  /\ pushed = <<>>
  /\ candidates = <<>>
  /\ plate = Null
  /\ DetIdle
  /\ ReqIdle
  /\ ModFresh
  /\ AuxIdle

Validate ==
  /\ vpc = "call"
  /\ LET r == validateMexicanPlate(text)
     IN  /\ cleanText' = r.clean
         /\ patMatches' = r.matches
         /\ pushed' = r.pushed
         /\ candidates' = r.sorted
         /\ plate' = r.plate
         /\ vpc' = (IF r.threw THEN "threw" ELSE "done")
  /\ UNCHANGED <<parts, text>>
  /\ UNCHANGED detVars
  /\ UNCHANGED reqVars
  /\ UNCHANGED modVars
  /\ UNCHANGED auxVars

Next == Validate

Spec == Init /\ [][Next]_vars

(***************************************************************************)
(* The two variants side by side: the endpoint's validator and the         *)
(* standalone one of ProcessedImages.vue, each called once on the text     *)
(***************************************************************************)
\* texts around the minimum length, bare and with spaces on either side
ShortCores ==
  {<<"A">>,
   <<"A","B","1","2">>,
   <<"A","B","C","1">>,
   <<"A","B","C","1","2">>,
   <<"A","B","C","-","1">>,
   <<"A","B","C","1","2","3">>,
   <<"A","B","-","1","2">>}

SpacePads == {<<>>, <<" ">>, <<" ", " ">>, <<" ", " ", " ">>}

VariantParts ==
       {<<(<<>>), t, (<<>>)>> : t \in ChunkTexts \cup {Null}}
  \cup {<<a, t, b>> : a \in SpacePads, t \in ShortCores, b \in SpacePads}

InitVariants ==
  /\ parts \in VariantParts
  /\ text = (IF parts[2] = Null THEN Null ELSE parts[1] \o parts[2] \o parts[3])
  /\ vpc = "call"
  /\ cleanText = <<>>
  /\ patMatches = <<>>
  /\ pushed = <<>>
  /\ candidates = <<>>
  /\ plate = Null
  /\ DetIdle
  /\ ReqIdle
  /\ ModFresh
  /\ AuxIdle

\* ProcessedImages.vue lines 604-648
ValidateStandalone ==
  /\ vpc = "call"
  /\ LET r == validateStandalone(text)
     IN  /\ cleanText' = r.clean
         /\ patMatches' = r.matches
         /\ pushed' = r.pushed
         /\ candidates' = r.sorted
         /\ plate' = r.plate
         /\ vpc' = (IF r.threw THEN "threw" ELSE "standalone")
  /\ UNCHANGED <<parts, text>>
  /\ UNCHANGED detVars
  /\ UNCHANGED reqVars
  /\ UNCHANGED modVars
  /\ UNCHANGED auxVars

NextVariants == Validate \/ ValidateStandalone

SpecVariants == InitVariants /\ [][NextVariants]_vars

(***************************************************************************)
(* One call of detectPlateWithOCR (lines 307-410)                          *)
(***************************************************************************)
\* preprocessImageForPlateDetection returns the four variants in this
\* order (lines 178, 196, 216, 235); variantName is derived from the path
\* (lines 318-321)
AllVariants == <<"enfocada", "alto contraste", "realce de bordes", "escalada">>

\* its catch returns the original image alone (line 244)
FallbackVariants == <<"desconocida">>

\* what Tesseract may read from a variant
OcrTexts == { <<"X","X","X","-","1","1","1","-","A">>,
              <<"A","B","C","-","1","2","-","3","4">>,
              <<"H","E","L","L","O"," ","W","O","R","L","D"," ","4","2">> }

\* Tesseract's confidence, 0..100; the code divides by 100 (line 355) and
\* the model keeps hundredths. No two values differ by exactly 10, where
\* the floating-point subtraction of line 374 could round either way.
Confidences == {5, 50, 55, 90}

NoPlate ==
  [hasPlate |-> FALSE, plateText |-> Null, confidence |-> 0,
   processingMethod |-> Null, allCandidates |-> <<>>]

\* lines 380-399: the object returned for the sorted ocrResults
DetectionOf(sorted) ==
  IF Len(sorted) > 0
  THEN [hasPlate |-> TRUE,
        plateText |-> sorted[1].plateText,
        confidence |-> sorted[1].confidence,
        processingMethod |-> sorted[1].source,
        allCandidates |->
          [j \in 1..Len(sorted) |->
             [text |-> sorted[j].plateText,
              confidence |-> sorted[j].confidence]]]
  ELSE NoPlate

ValIdle ==
  /\ parts = <<>>
  /\ text = <<>>
  /\ vpc = "idle"
  /\ cleanText = <<>>
  /\ patMatches = <<>>
  /\ pushed = <<>>
  /\ candidates = <<>>
  /\ plate = Null

InitDetect ==
  /\ ValIdle
  /\ ReqIdle
  /\ ModFresh
  /\ AuxIdle
  /\ variations = <<>>
  /\ idx = 0
  /\ ocrResults = <<>>
  /\ detection = Null
  /\ dpc = "start"

\* line 312: the preprocessing succeeds, or fails and falls back
Preprocess ==
  /\ dpc = "start"
  /\ variations' \in {AllVariants, FallbackVariants}
  /\ idx' = 1
  /\ dpc' = "ocr"
  /\ UNCHANGED <<ocrResults, detection>>
  /\ UNCHANGED valVars
  /\ UNCHANGED reqVars
  /\ UNCHANGED modVars
  /\ UNCHANGED auxVars

\* lines 327-361: Tesseract reads variant idx, the text is validated
Recognize ==
  /\ dpc = "ocr"
  /\ idx <= Len(variations)
  /\ \E t \in OcrTexts, c \in Confidences :
       LET validatedPlate == validateMexicanPlate(t).plate
       IN  ocrResults' =
             IF validatedPlate # Null
             THEN Append(ocrResults,
                         [plateText |-> validatedPlate, confidence |-> c,
                          rawText |-> t, source |-> variations[idx]])
             ELSE ocrResults
  /\ idx' = idx + 1
  /\ UNCHANGED <<variations, detection, dpc>>
  /\ UNCHANGED valVars
  /\ UNCHANGED reqVars
  /\ UNCHANGED modVars
  /\ UNCHANGED auxVars

\* lines 362-364: Tesseract throws, the variant is skipped
RecognizeFails ==
  /\ dpc = "ocr"
  /\ idx <= Len(variations)
  /\ idx' = idx + 1
  /\ UNCHANGED <<variations, ocrResults, detection, dpc>>
  /\ UNCHANGED valVars
  /\ UNCHANGED reqVars
  /\ UNCHANGED modVars
  /\ UNCHANGED auxVars

\* lines 372-399: the results are sorted and the first is returned
Finish ==
  /\ dpc = "ocr"
  /\ idx > Len(variations)
  /\ LET sorted == Sort(ocrResults, "ocr")
     IN  /\ ocrResults' = sorted
         /\ detection' = DetectionOf(sorted)
  /\ dpc' = "done"
  /\ UNCHANGED <<variations, idx>>
  /\ UNCHANGED valVars
  /\ UNCHANGED reqVars
  /\ UNCHANGED modVars
  /\ UNCHANGED auxVars

NextDetect == Preprocess \/ Recognize \/ RecognizeFails \/ Finish

SpecDetect == InitDetect /\ [][NextDetect]_vars

(***************************************************************************)
(* The request handler (lines 412-519): after the vehicle detection three  *)
(* calls of detectPlateWithOCR run concurrently under Promise.all, each    *)
(* awaiting its preprocessing and each Tesseract recognition, and the      *)
(* handler selects among their results                                     *)
(***************************************************************************)
\* Tesseract throws (line 362), or reads text with confidence c
NoReading == [failed |-> TRUE, text |-> <<>>, confidence |-> 0]

Reading(t, c) == [failed |-> FALSE, text |-> t, confidence |-> c]


\* what one call is given: whether its preprocessing succeeds, and what
\* Tesseract reads from each variant
CallOutputs ==
  { [prepOk |-> TRUE,
     readings |-> <<Reading(<<"H","E","L","L","O"," ","W","O","R","L","D"," ","4","2">>, 90),
                    NoReading, NoReading, NoReading>>],
    [prepOk |-> TRUE,
     readings |-> <<Reading(<<"A","B","C","-","1","2","-","3","4">>, 10), NoReading,
                    NoReading, Reading(<<"X","X","X","-","1","1","1","-","A">>, 10)>>],
    [prepOk |-> TRUE,
     readings |-> <<NoReading, Reading(<<"A","B","C","-","1","2","-","3","4">>, 50),
                    Reading(<<"X","X","X","-","1","1","1","-","A">>, 55), NoReading>>],
    [prepOk |-> FALSE,
     readings |-> <<Reading(<<"X","X","X","-","1","1","1","-","A">>, 90), NoReading,
                    NoReading, NoReading>>] }

NumCalls == 3

\* a call of detectPlateWithOCR that has not started, and the first
\* element of the array when there is no vehicle, Promise.resolve(null)
CallStart ==
  [pc |-> "start", variations |-> <<>>, idx |-> 0, ocrResults |-> <<>>,
   result |-> Nothing]

CallResolvedNull ==
  [pc |-> "done", variations |-> <<>>, idx |-> 0, ocrResults |-> <<>>,
   result |-> Nothing]

InitRequest ==
  /\ ValIdle
  /\ DetIdle
  /\ ModFresh
  /\ AuxIdle
  /\ hasVehicle \in BOOLEAN
  /\ outputs \in [1..NumCalls -> CallOutputs]
  /\ calls = [k \in 1..NumCalls |->
                IF k = 1 /\ ~hasVehicle THEN CallResolvedNull ELSE CallStart]
  /\ settled = (IF hasVehicle THEN <<>> ELSE <<1>>)
  /\ plateDetection = Null
  /\ response = Null
  /\ rpc = "detecting"

\* line 312 in call k
CallPreprocess(k) ==
  /\ rpc = "detecting"
  /\ calls[k].pc = "start"
  /\ calls' = [calls EXCEPT
                 ![k].variations = (IF outputs[k].prepOk THEN AllVariants
                                    ELSE FallbackVariants),
                 ![k].idx = 1,
                 ![k].pc = "ocr"]
  /\ UNCHANGED <<hasVehicle, outputs, settled, plateDetection, response, rpc>>
  /\ UNCHANGED <<valVars, detVars, modVars>>
  /\ UNCHANGED auxVars

\* lines 323-364 in call k: one turn of the loop
CallRecognize(k) ==
  /\ rpc = "detecting"
  /\ calls[k].pc = "ocr"
  /\ calls[k].idx <= Len(calls[k].variations)
  /\ LET c == calls[k]
         r == outputs[k].readings[c.idx]
         validatedPlate == IF r.failed THEN Null
                           ELSE validateMexicanPlate(r.text).plate
     IN  calls' = [calls EXCEPT
                     ![k].ocrResults =
                        IF validatedPlate # Null
                        THEN Append(c.ocrResults,
                                    [plateText |-> validatedPlate,
                                     confidence |-> r.confidence,
                                     rawText |-> r.text,
                                     source |-> c.variations[c.idx]])
                        ELSE c.ocrResults,
                     ![k].idx = c.idx + 1]
  /\ UNCHANGED <<hasVehicle, outputs, settled, plateDetection, response, rpc>>
  /\ UNCHANGED <<valVars, detVars, modVars>>
  /\ UNCHANGED auxVars

\* lines 367-399 in call k: its promise settles
CallFinish(k) ==
  /\ rpc = "detecting"
  /\ calls[k].pc = "ocr"
  /\ calls[k].idx > Len(calls[k].variations)
  /\ LET sorted == Sort(calls[k].ocrResults, "ocr")
     IN  calls' = [calls EXCEPT
                     ![k].ocrResults = sorted,
                     ![k].result = DetectionOf(sorted),
                     ![k].pc = "done"]
  /\ settled' = Append(settled, k)
  /\ UNCHANGED <<hasVehicle, outputs, plateDetection, response, rpc>>
  /\ UNCHANGED <<valVars, detVars, modVars>>
  /\ UNCHANGED auxVars

\* a defect: the results are gathered as the promises settle
PromiseAllAsSettled(cs, done) == [k \in 1..Len(done) |-> cs[done[k]].result]

\* line 451: Promise.all gives the results in the order of the array
\* whatever the order in which the promises settled
PromiseAll(cs, done) == [k \in 1..Len(cs) |-> cs[k].result]

Undefined == <<"undefined">>

\* line 463: the literal has neither processingMethod nor allCandidates
DefaultDetection ==
  [hasPlate |-> FALSE, plateText |-> Null, confidence |-> 0,
   processingMethod |-> Undefined, allCandidates |-> Undefined]

\* Array.prototype.find: the first element that satisfies test
Find(a, test(_)) ==
  IF \E k \in 1..Len(a) : test(a[k])
  THEN a[CHOOSE k \in 1..Len(a) :
           test(a[k]) /\ \A j \in 1..(k - 1) : ~test(a[j])]
  ELSE Nothing

\* result && result.hasPlate
HasPlate(result) == result # Nothing /\ result.hasPlate

\* result && result.hasPlate && result.confidence > 0.1
HasConfidentPlate(result) == HasPlate(result) /\ result.confidence > 10

\* a defect: the confidence is not looked at
SelectAnyPlate(plateResults) ==
  IF Find(plateResults, HasPlate) # Nothing
  THEN Find(plateResults, HasPlate)
  ELSE IF plateResults[2] # Nothing THEN plateResults[2]
  ELSE IF plateResults[1] # Nothing THEN plateResults[1]
  ELSE DefaultDetection

\* lines 459-463
SelectDetection(plateResults) ==
  IF Find(plateResults, HasConfidentPlate) # Nothing
  THEN Find(plateResults, HasConfidentPlate)
  ELSE IF Find(plateResults, HasPlate) # Nothing
  THEN Find(plateResults, HasPlate)
  ELSE IF plateResults[2] # Nothing THEN plateResults[2]
  ELSE IF plateResults[1] # Nothing THEN plateResults[1]
  ELSE DefaultDetection

\* lines 451-484: Promise.all resolves, the handler selects and responds
Respond ==
  /\ rpc = "detecting"
  /\ \A k \in 1..NumCalls : calls[k].pc = "done"
  /\ LET selected == SelectDetection(PromiseAll(calls, settled))
     IN  /\ plateDetection' = selected
         /\ response' = [hasPlate |-> selected.hasPlate,
                         plateText |-> selected.plateText,
                         plateConfidence |-> selected.confidence,
                         processingMethod |-> selected.processingMethod]
  /\ rpc' = "done"
  /\ UNCHANGED <<hasVehicle, outputs, calls, settled>>
  /\ UNCHANGED <<valVars, detVars, modVars>>
  /\ UNCHANGED auxVars

NextRequest ==
  \/ \E k \in 1..NumCalls :
       CallPreprocess(k) \/ CallRecognize(k) \/ CallFinish(k)
  \/ Respond

SpecRequest == InitRequest /\ [][NextRequest]_vars

(***************************************************************************)
(* Extraction at both levels: one call of validateMexicanPlate on a text,  *)
(* or one call of detectPlateWithOCR over its variants                     *)
(***************************************************************************)
InitExtract == Init \/ InitDetect

NextExtract == Next \/ NextDetect

SpecExtract == InitExtract /\ [][NextExtract]_vars

(***************************************************************************)
(* Calls of validateMexicanPlate one after another on the same module:     *)
(* the function is synchronous, so two calls never overlap, and every      *)
(* call uses the same nine regex objects                                   *)
(***************************************************************************)
MaxCalls == 4

CallParts ==
       {<<(<<>>), t, (<<>>)>> : t \in PlateTexts \cup ShortCores \cup {Null}}
  \cup DigitsFirstParts

InitCalls ==
  /\ ValIdle
  /\ DetIdle
  /\ ReqIdle
  /\ ModFresh
  /\ AuxIdle

Call ==
  /\ ncalls < MaxCalls
  /\ \E p \in CallParts :
       LET t == IF p[2] = Null THEN Null ELSE Flatten(p)
           r == validateOnModule(t, lastIndex)
       IN  /\ parts' = p
           /\ text' = t
           /\ cleanText' = r.clean
           /\ patMatches' = r.matches
           /\ pushed' = r.pushed
           /\ candidates' = r.sorted
           /\ plate' = r.plate
           /\ vpc' = (IF r.threw THEN "threw" ELSE "done")
           /\ lastIndex' = r.lastIndex
  /\ ncalls' = ncalls + 1
  /\ UNCHANGED detVars
  /\ UNCHANGED reqVars
  /\ UNCHANGED auxVars

NextCalls == Call

SpecCalls == InitCalls /\ [][NextCalls]_vars

(***************************************************************************)
(* The WebSocket module (server/api/websocket.js): initWebSocketServer,    *)
(* the connection, message, close and error handlers, broadcastToSession   *)
(***************************************************************************)
MaxSockets == 2
MaxNow == 1
MaxCasts == 1

Sessions == {"s1", "s2"}

\* Map.prototype.set and Map.prototype.delete
MapSet(m, key, value) ==
  [k \in DOMAIN m \cup {key} |-> IF k = key THEN value ELSE m[k]]

MapDelete(m, key) == [k \in DOMAIN m \ {key} |-> m[k]]

MapValues(m) == {m[k] : k \in DOMAIN m}

\* lines 6-9 and 54
InitWebSocketServer ==
  /\ wss' = (IF wss # 0 THEN wss ELSE 1)
  /\ UNCHANGED <<now, clients, sockets, cast>>
  /\ UNCHANGED withoutWs

\* lines 11-15 and 46-51: a client connects; its clientId is Date.now()
Connect ==
  /\ wss # 0
  /\ Len(sockets) < MaxSockets
  /\ clients' = MapSet(clients, now, Len(sockets) + 1)
  /\ sockets' = Append(sockets,
                       [readyState |-> "OPEN", sessionId |-> "undefined",
                        clientId |-> now, received |-> {}])
  /\ UNCHANGED <<now, wss, cast>>
  /\ UNCHANGED withoutWs

\* lines 17-26: a subscribe message arrives
Subscribe(i, sessionId) ==
  /\ sockets[i].readyState = "OPEN"
  /\ sockets' = [sockets EXCEPT ![i].sessionId = sessionId]
  /\ UNCHANGED <<now, wss, clients, cast>>
  /\ UNCHANGED withoutWs

\* lines 27-29: a ping message arrives and is answered; of what is sent
\* to a socket only the broadcasts are kept
Ping(i) ==
  /\ sockets[i].readyState = "OPEN"
  /\ UNCHANGED <<now, wss, clients, sockets, cast>>
  /\ UNCHANGED withoutWs

\* lines 36-39
Close(i) ==
  /\ sockets[i].readyState = "OPEN"
  /\ sockets' = [sockets EXCEPT ![i].readyState = "CLOSED"]
  /\ clients' = MapDelete(clients, sockets[i].clientId)
  /\ UNCHANGED <<now, wss, cast>>
  /\ UNCHANGED withoutWs

\* lines 41-44
SocketError(i) ==
  /\ sockets[i].readyState = "OPEN"
  /\ clients' = MapDelete(clients, sockets[i].clientId)
  /\ UNCHANGED <<now, wss, sockets, cast>>
  /\ UNCHANGED withoutWs

\* the clock advances
Tick ==
  /\ now < MaxNow
  /\ now' = now + 1
  /\ UNCHANGED wsVars
  /\ UNCHANGED withoutWs

\* a defect: the session is not compared, as in broadcast (lines 70-74)
SendsToEveryOpen(ws, sessionId) == ws.readyState = "OPEN"

\* line 61
SendsTo(ws, sessionId) == ws.readyState = "OPEN" /\ ws.sessionId = sessionId

\* lines 57-65: the sockets after broadcastToSession(sessionId, data), data
\* being the n-th broadcast
Broadcast(sessionId, n) ==
  IF wss = 0 THEN sockets
  ELSE [i \in 1..Len(sockets) |->
          IF i \in MapValues(clients) /\ SendsTo(sockets[i], sessionId)
          THEN [sockets[i] EXCEPT !.received = @ \cup {n}]
          ELSE sockets[i]]

BroadcastToSession(sessionId) ==
  /\ cast.n < MaxCasts
  /\ sockets' = Broadcast(sessionId, cast.n + 1)
  /\ cast' = [n |-> cast.n + 1, sessionId |-> sessionId]
  /\ UNCHANGED <<now, wss, clients>>
  /\ UNCHANGED withoutWs

InitSocket ==
  /\ ValIdle
  /\ DetIdle
  /\ ReqIdle
  /\ ModFresh
  /\ AuxIdle

NextSocket ==
  \/ InitWebSocketServer
  \/ Connect
  \/ \E i \in 1..Len(sockets) :
       \/ \E sessionId \in Sessions : Subscribe(i, sessionId)
       \/ Ping(i)
       \/ Close(i)
       \/ SocketError(i)
  \/ Tick
  \/ \E sessionId \in Sessions : BroadcastToSession(sessionId)

SpecSocket == InitSocket /\ [][NextSocket]_vars

(***************************************************************************)
(* One ProcessingLogger (server/utils/processing-logger.js). No code of    *)
(* the repository calls initWebSocketServer, so wss is null and every      *)
(* broadcastToSession of the logger returns at its first line              *)
(***************************************************************************)
MaxLogs == 2
MaxSaves == 2

LoggerSession == "s1"

\* LOG_TYPES (lines 263-268)
LogTypes == {"info", "success", "warning", "error"}

\* the metadata argument: none, extra properties, and properties with the
\* names the entry itself uses
NoMetadata == [k \in {} |-> "none"]

Metadatas ==
  { NoMetadata,
    [operation |-> "OCR"],
    [type |-> "car"] }

\* object spread, { ...a, ...b }: the properties of b replace those of a
Spread(a, b) ==
  [k \in DOMAIN a \cup DOMAIN b |-> IF k \in DOMAIN b THEN b[k] ELSE a[k]]

\* lines 28-34
LogEntry(message, type, metadata) ==
  Spread([timestamp |-> now, message |-> message, type |-> type,
          sessionId |-> LoggerSession],
         metadata)

\* lines 27-44, and info, success, warning, error (lines 51-80), which
\* call log with their type
Log(message, type, metadata) ==
  /\ Len(logs) < MaxLogs
  /\ logs' = Append(logs, LogEntry(message, type, metadata))
  /\ logCalls' = Append(logCalls, [message |-> message, type |-> type])
  /\ UNCHANGED <<now, processedImages, gotLogs, saves, processingDir>>
  /\ UNCHANGED withoutLog

\* lines 190-192: [...this.logs], a new array with the same entries
GetLogs ==
  /\ gotLogs = <<>>
  /\ gotLogs' = <<logs>>
  /\ UNCHANGED <<now, logs, processedImages, logCalls, saves, processingDir>>
  /\ UNCHANGED withoutLog

\* the caller pushes an element of its own to the array it got; the array
\* is not this.logs, which stays as it is
MutateReturned ==
  /\ gotLogs # <<>>
  /\ \A j \in 1..Len(gotLogs[1]) : gotLogs[1][j].message # "pushed by the caller"
  /\ gotLogs' = <<Append(gotLogs[1], [message |-> "pushed by the caller"])>>
  /\ UNCHANGED <<now, logs, processedImages, logCalls, saves, processingDir>>
  /\ UNCHANGED withoutLog

\* PROCESSING_STEPS (lines 273-281), two of them
StepNames == {"original", "cropped"}

\* line 91: `${this.sessionId}_${stepName}_${Date.now()}.jpg`
Filename(stepName) == <<LoggerSession, stepName, now>>

\* lines 89-95: saveProcessedImage is called, the filename is fixed and
\* the call waits for mkdir and writeFile
SaveStart(stepName) ==
  /\ Len(saves) < MaxSaves
  /\ saves' = Append(saves, [pc |-> "write", filename |-> Filename(stepName),
                             stepName |-> stepName])
  /\ UNCHANGED <<now, logs, processedImages, logCalls, gotLogs, processingDir>>
  /\ UNCHANGED withoutLog

\* lines 98-119: the file is written, the image is recorded, this.info
SaveFinish(k) ==
  /\ k \in DOMAIN saves
  /\ saves[k].pc = "write"
  /\ processingDir' = MapSet(processingDir, saves[k].filename, k)
  /\ processedImages' = Append(processedImages,
                               [filename |-> saves[k].filename,
                                stepName |-> saves[k].stepName,
                                timestamp |-> now,
                                sessionId |-> LoggerSession])
  /\ logs' = Append(logs, LogEntry("saved", "info", NoMetadata))
  /\ logCalls' = Append(logCalls, [message |-> "saved", type |-> "info"])
  /\ saves' = [saves EXCEPT ![k].pc = "saved"]
  /\ UNCHANGED <<now, gotLogs>>
  /\ UNCHANGED withoutLog

\* lines 120-123: mkdir or writeFile fails, this.error, null is returned
SaveFails(k) ==
  /\ k \in DOMAIN saves
  /\ saves[k].pc = "write"
  /\ logs' = Append(logs, LogEntry("save failed", "error", NoMetadata))
  /\ logCalls' = Append(logCalls, [message |-> "save failed", type |-> "error"])
  /\ saves' = [saves EXCEPT ![k].pc = "failed"]
  /\ UNCHANGED <<now, processedImages, gotLogs, processingDir>>
  /\ UNCHANGED withoutLog

LoggerTick ==
  /\ now < MaxNow
  /\ now' = now + 1
  /\ UNCHANGED logVars
  /\ UNCHANGED withoutLog

InitLogger ==
  /\ ValIdle
  /\ DetIdle
  /\ ReqIdle
  /\ ModFresh
  /\ AuxIdle

NextLogger ==
  \/ \E type \in LogTypes, metadata \in Metadatas : Log("m", type, metadata)
  \/ GetLogs
  \/ MutateReturned
  \/ \E stepName \in StepNames : SaveStart(stepName)
  \/ \E k \in 1..MaxSaves : SaveFinish(k) \/ SaveFails(k)
  \/ LoggerTick

SpecLogger == InitLogger /\ [][NextLogger]_vars

(***************************************************************************)
(* The temporary files of one request of analyze-plate-enhanced: the three *)
(* detectPlateWithOCR calls of the Promise.all (lines 451-457), each with  *)
(* its preprocessImageForPlateDetection. What the calls write to the       *)
(* logger is in SpecLogger                                                 *)
(***************************************************************************)
\* the path formidable gives the upload of the r-th request (uploadDir
\* '/tmp', keepExtensions: true)
UploadNames == <<"/tmp/upload", "/tmp/upload2", "/tmp/upload3">>

UploadPath(r) == <<UploadNames[r], ".", "jpg">>

\* imagePath of the request whose detectPlateWithOCR calls are followed
ImagePath == UploadPath(1)

\* the file the request uploaded, as the writer of a path
Upload == 0

\* String.prototype.replace('.', tag + '.'): the first '.' only
FirstDot(path) ==
  IF \E i \in 1..Len(path) : path[i] = "."
    THEN CHOOSE i \in 1..Len(path) :
           /\ path[i] = "."
           /\ \A j \in 1..(i - 1) : path[j] # "."
    ELSE 0

ReplaceDot(path, tag) ==
  IF FirstDot(path) = 0
    THEN path
    ELSE SubSeq(path, 1, FirstDot(path) - 1) \o <<tag, ".">>
           \o SubSeq(path, FirstDot(path) + 1, Len(path))

\* the calls of the Promise.all array (lines 451-457)
OcrCalls == 1..3

\* lines 452-456: the first call is made when a vehicle was detected, with
\* its bbox; the second has no bbox; the third has [0, 0.5, 1.0, 0.5].
\* "large" is a bbox whose crop is at least 100 x 75 (line 124)
BboxesOf(vehicle, lower) ==
  <<vehicle, "null", lower>>

\* lines 166-236: the variants, in the order they are written
VariantTags == <<"_focused", "_highcontrast", "_edges", "_upscaled">>

VariantPcs == <<"focused", "highcontrast", "edges", "upscaled">>

\* a call that line 452 or 455-456 has just made
OcrStart ==
  [pc |-> "original", i |-> 1, workingPath |-> ImagePath, tempFiles |-> <<>>,
   enhancementVariations |-> <<>>, written |-> {}, foreign |-> FALSE]

\* Promise.resolve(null), line 454
OcrAbsent == [OcrStart EXCEPT !.pc = "done"]

\* lines 94-96: the upload is read
ReadOriginal(k) ==
  /\ ocr[k].pc = "original"
  /\ ImagePath \in DOMAIN tmp
  /\ ocr' = [ocr EXCEPT ![k].pc = IF bboxes[k] = "null" THEN "focused" ELSE "crop"]
  /\ UNCHANGED <<tmp, bboxes, handler>>
  /\ UNCHANGED withoutFile

\* lines 99-140: the crop, written when it is at least 100 x 75
Crop(k) ==
  /\ ocr[k].pc = "crop"
  /\ LET croppedPath == ReplaceDot(ImagePath, "_cropped") IN
       IF bboxes[k] = "large"
         THEN /\ tmp' = MapSet(tmp, croppedPath, k)
              /\ ocr' = [ocr EXCEPT ![k].pc = "focused",
                                     ![k].workingPath = croppedPath,
                                     ![k].tempFiles = Append(@, croppedPath),
                                     ![k].written = @ \cup {croppedPath}]
         ELSE /\ ocr' = [ocr EXCEPT ![k].pc = "focused"]
              /\ UNCHANGED tmp
  /\ UNCHANGED <<bboxes, handler>>
  /\ UNCHANGED withoutFile

\* lines 146-236: the v-th variant is made from workingPath and written
Variant(k, v) ==
  /\ ocr[k].pc = VariantPcs[v]
  /\ ocr[k].workingPath \in DOMAIN tmp
  /\ LET variantPath == ReplaceDot(ocr[k].workingPath, VariantTags[v]) IN
       /\ tmp' = MapSet(tmp, variantPath, k)
       /\ ocr' = [ocr EXCEPT ![k].pc = IF v < Len(VariantPcs)
                                         THEN VariantPcs[v + 1] ELSE "ocr",
                              ![k].enhancementVariations = Append(@, variantPath),
                              ![k].tempFiles = Append(@, variantPath),
                              ![k].written = @ \cup {variantPath}]
  /\ UNCHANGED <<bboxes, handler>>
  /\ UNCHANGED withoutFile

\* lines 242-245: a step of the preprocessing throws (sharp cannot read
\* workingPath, the disk is full, ...); the original image is returned as
\* the only variation, with no temporary files
PreprocessFails(k) ==
  /\ ocr[k].pc \in {"original", "crop"} \cup {VariantPcs[v] : v \in 1..Len(VariantPcs)}
  /\ ocr' = [ocr EXCEPT ![k].pc = "ocr",
                         ![k].enhancementVariations = <<ImagePath>>,
                         ![k].tempFiles = <<>>]
  /\ UNCHANGED <<tmp, bboxes, handler>>
  /\ UNCHANGED withoutFile

\* the position after the i-th pass of a loop over a of a call at pc
AfterLoop(call, a, after) ==
  IF call.i < Len(a)
    THEN [call EXCEPT !.i = @ + 1]
    ELSE [call EXCEPT !.i = 1,
                      !.pc = IF after = "unlink" /\ call.tempFiles = <<>>
                               THEN "done" ELSE after]

\* lines 314-365: Tesseract.recognize of the i-th variation; it reads what
\* the path holds now, and throws (caught at line 362) when the file is
\* not there. foreign: the call did not find what it or the upload wrote
RecognizeFile(k) ==
  /\ ocr[k].pc = "ocr"
  /\ LET enhancedPath == ocr[k].enhancementVariations[ocr[k].i]
         own == /\ enhancedPath \in DOMAIN tmp
                /\ tmp[enhancedPath] \in {k, Upload}
     IN ocr' = [ocr EXCEPT ![k] = AfterLoop([@ EXCEPT !.foreign = @ \/ ~own],
                                            ocr[k].enhancementVariations,
                                            "unlink")]
  /\ UNCHANGED <<tmp, bboxes, handler>>
  /\ UNCHANGED withoutFile

\* lines 367-370: await fs.unlink(tempFile).catch(() => {})
Unlink(k) ==
  /\ ocr[k].pc = "unlink"
  /\ tmp' = MapDelete(tmp, ocr[k].tempFiles[ocr[k].i])
  /\ ocr' = [ocr EXCEPT ![k] = AfterLoop(@, ocr[k].tempFiles, "done")]
  /\ UNCHANGED <<bboxes, handler>>
  /\ UNCHANGED withoutFile

\* lines 451-467: every call has returned; the upload is deleted
UnlinkUpload ==
  /\ handler[1].pc = "Promise.all"
  /\ \A k \in OcrCalls : ocr[k].pc = "done"
  /\ tmp' = MapDelete(tmp, handler[1].imagePath)
  /\ handler' = [handler EXCEPT ![1].pc = "responded"]
  /\ UNCHANGED <<ocr, bboxes>>
  /\ UNCHANGED withoutFile

\* the request at line 451: the upload is in /tmp, detectVehicle has
\* returned, with a vehicle or without; the image is large enough for the
\* crop of its lower half or it is not
InitFiles ==
  /\ ValIdle
  /\ DetIdle
  /\ ReqIdle
  /\ ModFresh
  /\ now = 0
  /\ WsIdle
  /\ LogIdle
  /\ LoadIdle
  /\ CropIdle
  /\ PageIdle
  /\ tmp = MapSet(<<>>, ImagePath, Upload)
  /\ handler = <<[endpoint |-> "enhanced", pc |-> "Promise.all",
                  imagePath |-> ImagePath]>>
  /\ \E vehicle \in {"absent", "large", "small"}, lower \in {"large", "small"} :
       /\ bboxes = BboxesOf(vehicle, lower)
       /\ ocr = [k \in OcrCalls |->
                   IF bboxes[k] = "absent" THEN OcrAbsent ELSE OcrStart]

NextFiles ==
  \/ \E k \in OcrCalls :
       \/ ReadOriginal(k)
       \/ Crop(k)
       \/ \E v \in 1..Len(VariantPcs) : Variant(k, v)
       \/ PreprocessFails(k)
       \/ RecognizeFile(k)
       \/ Unlink(k)
  \/ UnlinkUpload

SpecFiles == InitFiles /\ [][NextFiles]_vars

(***************************************************************************)
(* The upload of a request, from form.parse to the response or the error   *)
(* of the handler, for analyze-plate-simple and analyze-plate-enhanced.    *)
(* The steps between are followed only as far as they can end the handler  *)
(***************************************************************************)
MaxRequests == 2

Endpoints == {"simple", "enhanced"}

\* a request arrives: let imagePath = null (simple line 462, enhanced
\* line 422)
Arrive(endpoint) ==
  /\ Len(handler) < MaxRequests
  /\ handler' = Append(handler, [endpoint |-> endpoint, pc |-> "parse",
                                 imagePath |-> Null])
  /\ UNCHANGED <<tmp, ocr, bboxes>>
  /\ UNCHANGED withoutFile

\* simple lines 468-482, enhanced lines 427-441: form.parse has stored the
\* image in /tmp and imagePath is set
ParseImage(r) ==
  /\ r \in DOMAIN handler
  /\ handler[r].pc = "parse"
  /\ tmp' = MapSet(tmp, UploadPath(r), Upload)
  /\ handler' = [handler EXCEPT ![r].imagePath = UploadPath(r),
                                ![r].pc = IF handler[r].endpoint = "simple"
                                            THEN "readFile" ELSE "Promise.all"]
  /\ UNCHANGED <<ocr, bboxes>>
  /\ UNCHANGED withoutFile

\* form.parse rejects, or the form has no field image (simple lines
\* 468-479, enhanced lines 427-438): the catch runs with imagePath null
ParseFails(r) ==
  /\ r \in DOMAIN handler
  /\ handler[r].pc = "parse"
  /\ handler' = [handler EXCEPT ![r].pc = "catch"]
  /\ UNCHANGED <<tmp, ocr, bboxes>>
  /\ UNCHANGED withoutFile

\* simple lines 485-492: the upload is read (readFile may reject), then
\* detectVehicle and findPlateContours, which catch their own errors
ReadFile(r) ==
  /\ r \in DOMAIN handler
  /\ handler[r].pc = "readFile"
  /\ \E ok \in BOOLEAN :
       handler' = [handler EXCEPT ![r].pc = IF ok THEN "contours" ELSE "catch"]
  /\ UNCHANGED <<tmp, ocr, bboxes>>
  /\ UNCHANGED withoutFile

\* simple lines 494-519: no plate region was found and the response is
\* returned, or extractAndCorrectPlate is called
Contours(r) ==
  /\ r \in DOMAIN handler
  /\ handler[r].pc = "contours"
  /\ \E found \in BOOLEAN :
       handler' = [handler EXCEPT ![r].pc = IF found THEN "unlink" ELSE "responded"]
  /\ UNCHANGED <<tmp, ocr, bboxes>>
  /\ UNCHANGED withoutFile

\* enhanced lines 445-462: detectVehicle and the detectPlateWithOCR calls,
\* which catch their own errors, have returned
PlateResults(r) ==
  /\ r \in DOMAIN handler
  /\ handler[r].pc = "Promise.all"
  /\ handler' = [handler EXCEPT ![r].pc = "unlink"]
  /\ UNCHANGED <<tmp, ocr, bboxes>>
  /\ UNCHANGED withoutFile

\* simple lines 522-555, enhanced lines 466-505: the upload is deleted and
\* the response returned
UnlinkAndRespond(r) ==
  /\ r \in DOMAIN handler
  /\ handler[r].pc = "unlink"
  /\ tmp' = MapDelete(tmp, handler[r].imagePath)
  /\ handler' = [handler EXCEPT ![r].pc = "responded"]
  /\ UNCHANGED <<ocr, bboxes>>
  /\ UNCHANGED withoutFile

\* simple lines 557-568, enhanced lines 507-518: if (imagePath) unlink,
\* then the error 500
Catch(r) ==
  /\ r \in DOMAIN handler
  /\ handler[r].pc = "catch"
  /\ tmp' = (IF handler[r].imagePath # Null
               THEN MapDelete(tmp, handler[r].imagePath) ELSE tmp)
  /\ handler' = [handler EXCEPT ![r].pc = "failed"]
  /\ UNCHANGED <<ocr, bboxes>>
  /\ UNCHANGED withoutFile

InitUpload ==
  /\ ValIdle
  /\ DetIdle
  /\ ReqIdle
  /\ ModFresh
  /\ AuxIdle

NextUpload ==
  \/ \E endpoint \in Endpoints : Arrive(endpoint)
  \/ \E r \in 1..MaxRequests :
       \/ ParseImage(r)
       \/ ParseFails(r)
       \/ ReadFile(r)
       \/ Contours(r)
       \/ PlateResults(r)
       \/ UnlinkAndRespond(r)
       \/ Catch(r)

SpecUpload == InitUpload /\ [][NextUpload]_vars

(***************************************************************************)
(* loadCarDetectionModel (analyze-plate-enhanced lines 14-30, the same     *)
(* code in analyze-plate-simple lines 25-41), called by the detectVehicle  *)
(* of several requests. An instance is named by the number of the          *)
(* cocoSsd.load call that made it                                          *)
(***************************************************************************)
MaxLoaders == 3

\* line 15: a call finds the model and returns it (line 29), or enters the
\* try and waits for tf.ready()
LoadCarDetectionModel ==
  /\ Len(loaders) < MaxLoaders
  /\ loaders' = Append(loaders,
                       IF carDetectionModel # 0
                         THEN [pc |-> "returned", load |-> 0,
                               result |-> carDetectionModel]
                         ELSE [pc |-> "tf.ready", load |-> 0, result |-> 0])
  /\ UNCHANGED <<carDetectionModel, loads>>
  /\ UNCHANGED withoutLoad

\* lines 18-19: tf.ready() resolves and cocoSsd.load({ base }) is called;
\* lines 23-25: it rejects and cocoSsd.load() is called
TfReady(c) ==
  /\ c \in DOMAIN loaders
  /\ loaders[c].pc = "tf.ready"
  /\ loads' = loads + 1
  /\ \E ok \in BOOLEAN :
       loaders' = [loaders EXCEPT ![c].pc = IF ok THEN "load" ELSE "fallback",
                                  ![c].load = loads']
  /\ UNCHANGED carDetectionModel
  /\ UNCHANGED withoutLoad

\* lines 19-22 and 29: cocoSsd.load({ base }) resolves, the instance is
\* assigned and returned; lines 23-25: it rejects and cocoSsd.load() is
\* called
Loaded(c) ==
  /\ c \in DOMAIN loaders
  /\ loaders[c].pc = "load"
  /\ \E ok \in BOOLEAN :
       IF ok
         THEN /\ carDetectionModel' = loaders[c].load
              /\ loaders' = [loaders EXCEPT ![c].pc = "returned",
                                         ![c].result = carDetectionModel']
              /\ UNCHANGED loads
         ELSE /\ loads' = loads + 1
              /\ loaders' = [loaders EXCEPT ![c].pc = "fallback",
                                         ![c].load = loads']
              /\ UNCHANGED carDetectionModel
  /\ UNCHANGED withoutLoad

\* lines 25-29: cocoSsd.load() resolves, the instance is assigned and
\* returned; or it rejects, and so does loadCarDetectionModel
FallbackLoaded(c) ==
  /\ c \in DOMAIN loaders
  /\ loaders[c].pc = "fallback"
  /\ \E ok \in BOOLEAN :
       IF ok
         THEN /\ carDetectionModel' = loaders[c].load
              /\ loaders' = [loaders EXCEPT ![c].pc = "returned",
                                         ![c].result = carDetectionModel']
         ELSE /\ loaders' = [loaders EXCEPT ![c].pc = "rejected"]
              /\ UNCHANGED carDetectionModel
  /\ UNCHANGED loads
  /\ UNCHANGED withoutLoad

InitLoad ==
  /\ ValIdle
  /\ DetIdle
  /\ ReqIdle
  /\ ModFresh
  /\ AuxIdle

NextLoad ==
  \/ LoadCarDetectionModel
  \/ \E c \in 1..MaxLoaders : TfReady(c) \/ Loaded(c) \/ FallbackLoaded(c)

SpecLoad == InitLoad /\ [][NextLoad]_vars

(***************************************************************************)
(* The crop rectangle of preprocessImageForPlateDetection (lines 99-124).  *)
(* The values of a bbox are kept as counts of halves, so that 0.5 and      *)
(* 100.5 can be told from 0 and 100: 1 is 0.5, 2 is 1, 300 is 150. Widths, *)
(* heights and the rounded values are whole numbers                        *)
(***************************************************************************)
\* Math.round of h halves: the nearest whole number, a half goes up
MathRound(h) == (h + 1) \div 2

MathMax(a, b) == IF a >= b THEN a ELSE b

MathMin(a, b) == IF a <= b THEN a ELSE b

\* line 106: v <= 1 && v >= 0, for a number v of h halves
IsRatio(h) == h <= 2 /\ h >= 0

\* lines 106-122
CropParams(bbox, meta) ==
  IF \A i \in 1..4 : IsRatio(bbox[i])
    THEN [left |-> MathMax(0, MathRound(meta.width * bbox[1])),
          top |-> MathMax(0, MathRound(meta.height * bbox[2])),
          width |-> MathMin(meta.width, MathRound(meta.width * bbox[3])),
          height |-> MathMin(meta.height, MathRound(meta.height * bbox[4]))]
    ELSE [left |-> MathMax(0, MathRound(bbox[1])),
          top |-> MathMax(0, MathRound(bbox[2])),
          width |-> MathMin(meta.width - MathRound(bbox[1]), MathRound(bbox[3])),
          height |-> MathMin(meta.height - MathRound(bbox[2]), MathRound(bbox[4]))]

\* line 124: the rectangle is handed to sharp's extract
Extracts(params) == params.width >= 100 /\ params.height >= 75

\* the values of a bbox, in halves: the ratios 0, 0.5 and 1, and the
\* pixel values -20, 60, 100.5 and 150
BboxValues == {0, 1, 2, -40, 120, 201, 300}

\* the image sizes, with even and odd sides
ImageWidths == {200, 201}

ImageHeights == {150, 151}

\* lines 99-124, for a bbox that is an array of four numbers
ComputeCrop ==
  /\ cropParams = Nothing
  /\ cropParams' = CropParams(vehicleBbox, imageMetadata)
  /\ UNCHANGED <<vehicleBbox, imageMetadata>>
  /\ UNCHANGED withoutCrop

InitCrop ==
  /\ ValIdle
  /\ DetIdle
  /\ ReqIdle
  /\ ModFresh
  /\ now = 0
  /\ WsIdle
  /\ LogIdle
  /\ FileIdle
  /\ LoadIdle
  /\ PageIdle
  /\ vehicleBbox \in [1..4 -> BboxValues]
  /\ imageMetadata \in [width : ImageWidths, height : ImageHeights]
  /\ cropParams = Nothing

NextCrop == ComputeCrop

SpecCrop == InitCrop /\ [][NextCrop]_vars

(***************************************************************************)
(* The selection of the page (app/pages/index.vue lines 123-164):          *)
(* processFile, selectImageFromGallery, clearSelection, and the            *)
(* completions of the FileReader and of the fetch they start               *)
(***************************************************************************)
MaxPending == 2

\* the images of the gallery (name, url) and the files the user uploads
GalleryImages ==
  { [name |-> "a.jpg", url |-> "/api/image/a.jpg"],
    [name |-> "b.jpg", url |-> "/api/image/b.jpg"] }

UserFiles == { [name |-> "mine.jpg", from |-> "disk"] }

\* lines 123-134
ProcessFile(file) ==
  /\ Len(pending) < MaxPending
  /\ selectedFile' = file
  /\ selectedFileName' = file.name
  /\ pending' = Append(pending, [kind |-> "reader", of |-> file, pc |-> "pending"])
  /\ pageError' = "null"
  /\ selectedGalleryImage' = Nothing
  /\ latest' = [action |-> "upload", name |-> file.name, op |-> Len(pending')]
  /\ UNCHANGED selectedImage
  /\ UNCHANGED withoutPage

\* lines 127-129: reader.onload
ReaderLoad(p) ==
  /\ p \in DOMAIN pending
  /\ pending[p].kind = "reader"
  /\ pending[p].pc = "pending"
  /\ selectedImage' = pending[p].of.name
  /\ pending' = [pending EXCEPT ![p].pc = "done"]
  /\ UNCHANGED <<selectedFile, selectedFileName, selectedGalleryImage,
                 pageError, latest>>
  /\ UNCHANGED withoutPage

\* lines 136-142: up to await fetch(image.url)
SelectImageFromGallery(image) ==
  /\ Len(pending) < MaxPending
  /\ selectedGalleryImage' = image
  /\ pageError' = "null"
  /\ pending' = Append(pending, [kind |-> "fetch", of |-> image, pc |-> "pending"])
  /\ latest' = [action |-> "gallery", name |-> image.name, op |-> Len(pending')]
  /\ UNCHANGED <<selectedFile, selectedFileName, selectedImage>>
  /\ UNCHANGED withoutPage

\* lines 142-150: fetch and response.blob() have resolved
FetchResolves(p) ==
  /\ p \in DOMAIN pending
  /\ pending[p].kind = "fetch"
  /\ pending[p].pc = "pending"
  /\ selectedFile' = [name |-> pending[p].of.name, from |-> pending[p].of.url]
  /\ selectedFileName' = pending[p].of.name
  /\ selectedImage' = pending[p].of.url
  /\ pageError' = "null"
  /\ pending' = [pending EXCEPT ![p].pc = "done"]
  /\ UNCHANGED <<selectedGalleryImage, latest>>
  /\ UNCHANGED withoutPage

\* lines 151-154: fetch or response.blob() has rejected
FetchRejects(p) ==
  /\ p \in DOMAIN pending
  /\ pending[p].kind = "fetch"
  /\ pending[p].pc = "pending"
  /\ pageError' = "Error al cargar la imagen seleccionada"
  /\ pending' = [pending EXCEPT ![p].pc = "failed"]
  /\ UNCHANGED <<selectedFile, selectedFileName, selectedImage,
                 selectedGalleryImage, latest>>
  /\ UNCHANGED withoutPage

\* lines 157-164
ClearSelection ==
  /\ selectedFile' = Nothing
  /\ selectedImage' = "null"
  /\ selectedFileName' = "null"
  /\ selectedGalleryImage' = Nothing
  /\ pageError' = "null"
  /\ latest' = [action |-> "clear", name |-> "null", op |-> 0]
  /\ UNCHANGED pending
  /\ UNCHANGED withoutPage

InitPage ==
  /\ ValIdle
  /\ DetIdle
  /\ ReqIdle
  /\ ModFresh
  /\ AuxIdle

NextPage ==
  \/ \E file \in UserFiles : ProcessFile(file)
  \/ \E image \in GalleryImages : SelectImageFromGallery(image)
  \/ \E p \in 1..MaxPending : ReaderLoad(p) \/ FetchResolves(p) \/ FetchRejects(p)
  \/ ClearSelection

SpecPage == InitPage /\ [][NextPage]_vars

(***************************************************************************)
(* Properties of validateMexicanPlate, checked under Spec                  *)
(***************************************************************************)
Ran == vpc = "done" /\ text # Null /\ Len(text) >= MinTextLength

TopScore == candidates[1].score

IsSubstring(m, s) ==
  \E i \in 1..(Len(s) - Len(m) + 1) : SubSeq(s, i, i + Len(m) - 1) = m

\* the exact formats tested in the order of the specification's table
TableBase(m) ==
  IF Exactly(m, FmtStandard) THEN 100
  ELSE IF Exactly(m, FmtLetter) THEN 90
  ELSE IF Exactly(m, FmtIncomplete) \/ Exactly(m, FmtFederal) THEN 85
  ELSE IF Exactly(m, FmtLegacy) THEN 80
  ELSE IF Exactly(m, FmtPartial) THEN 60
  ELSE 50

\* C1: every candidate's base score (its score less the adjustments) is the
\* one the table gives for its string, first matching format winning, with
\* the table read in the specification's order; equal strings get equal
\* scores whichever pattern produced them.
C1_BaseScoreByFormat ==
  vpc = "done" =>
    /\ \A j \in 1..Len(pushed) :
         pushed[j].score - Adjustments(pushed[j].plate) = TableBase(pushed[j].plate)
    /\ \A i, j \in 1..Len(pushed) :
         pushed[i].plate = pushed[j].plate => pushed[i].score = pushed[j].score

\* a call that scored a federal-format string (85, tested after the legacy
\* format in the code) and a generic-shape string (60)
C1_Witness ==
  /\ vpc = "done"
  /\ \E i, j \in 1..Len(pushed) :
       /\ Exactly(pushed[i].plate, FmtFederal)
       /\ pushed[i].score - Adjustments(pushed[i].plate) = 85
       /\ pushed[j].score - Adjustments(pushed[j].plate) = 60

WindowMatches(k) == SelectSeq(patMatches[k], InWindow)

\* C2: the candidates are collected pattern by pattern in priority order,
\* each pattern's matches left to right, duplicates kept; the array is
\* then sorted by score descending, candidates of equal score keeping their
\* collection order, and the returned plate is the earliest collected
\* candidate of the highest score.
C2_DiscoveryOrderStableBest ==
  Ran =>
    /\ Len(patMatches) = Len(MEXICAN_PLATE_PATTERNS)
    /\ [j \in 1..Len(pushed) |-> pushed[j].plate]
         = Flatten([k \in 1..Len(patMatches) |-> WindowMatches(k)])
    /\ Len(candidates) = Len(pushed)
    /\ \A i, j \in 1..Len(candidates) :
         i < j => candidates[i].score >= candidates[j].score
    /\ \A v \in {pushed[j].score : j \in 1..Len(pushed)} :
         SelectSeq(candidates, LAMBDA c : c.score = v)
           = SelectSeq(pushed, LAMBDA c : c.score = v)
    /\ pushed # <<>> =>
         \E j \in 1..Len(pushed) :
           /\ plate = pushed[j].plate
           /\ \A i \in 1..Len(pushed) :
                /\ pushed[i].score <= pushed[j].score
                /\ i < j => pushed[i].score < pushed[j].score

\* a call where two different plates share the highest score, one plate was
\* collected twice, and the earliest collected is not the last of the array
C2_Witness ==
  /\ Ran
  /\ \E i, j, k \in 1..Len(pushed) :
       /\ i < j /\ j < k
       /\ pushed[i].plate = pushed[j].plate
       /\ pushed[k].plate # pushed[i].plate
       /\ pushed[k].score = pushed[i].score
       /\ \A n \in 1..Len(pushed) : pushed[n].score <= pushed[i].score
       /\ plate = pushed[i].plate

\* C3: the returned plate is non-null exactly when the candidate array is
\* non-empty, and it is then the plate of the first element of the sorted
\* array.
C3_BestIffCandidates ==
  vpc = "done" =>
    /\ (plate # Null) <=> (candidates # <<>>)
    /\ plate # Null => plate = candidates[1].plate

\* a call that returned a plate out of candidates with different plates
C3_Witness ==
  /\ vpc = "done"
  /\ plate # Null
  /\ Len(candidates) >= 2
  /\ candidates[Len(candidates)].plate # candidates[1].plate

PlateNCMDashed == <<"N","C","M","-","2","7","-","0","4">>
PlateNCMPlain  == <<"N","C","M","2","7","0","4">>
PlateGZW       == <<"G","Z","W","-","0","0","2","-","A">>
PlateSZH       == <<"S","Z","H","-","0","0","2","-">>

\* C5: the returned plate is a contiguous substring of the canonical text,
\* as found; 'NCM-27-04', 'NCM2704' and 'GZW-002-A' are returned unchanged,
\* each with a score of at least 100.
C5_VerbatimSubstring ==
  vpc = "done" =>
    /\ plate # Null => IsSubstring(plate, cleanText)
    /\ text \in {PlateNCMDashed, PlateNCMPlain, PlateGZW} =>
         plate = text /\ TopScore >= 100

\* the call on 'GZW-002-A' has returned
C5_Witness == vpc = "done" /\ text = PlateGZW /\ plate = PlateGZW

\* C6 as claimed: 'SZH-002-' is returned with score 95, the candidate
\* coming from pattern 3 because pattern 2 does not match the input.
C6_OnlyPatternThree ==
  (vpc = "done" /\ text = PlateSZH) =>
    /\ plate = PlateSZH
    /\ TopScore = 95
    /\ patMatches[2] = <<>>
    /\ patMatches[3] = <<PlateSZH>>

\* C6 amended: 'SZH-002-' is returned with score 95; pattern 2, whose
\* trailing letter is optional, matches the whole input as pattern 3 does,
\* so the candidate is collected twice and no other pattern matches.
C6_PatternsTwoAndThree ==
  (vpc = "done" /\ text = PlateSZH) =>
    /\ plate = PlateSZH
    /\ TopScore = 95
    /\ patMatches[2] = <<PlateSZH>>
    /\ patMatches[3] = <<PlateSZH>>
    /\ pushed = <<[plate |-> PlateSZH, score |-> 95],
                  [plate |-> PlateSZH, score |-> 95]>>

\* the call on 'SZH-002-' has returned
C6_Witness == vpc = "done" /\ text = PlateSZH /\ plate = PlateSZH

\* the text is a plate reading between watermark padding
IsPadded ==
  /\ parts[2] \in PlateTexts
  /\ parts[1] \in WatermarkPads
  /\ parts[3] \in WatermarkPads

\* C7: watermark padding around a plate text is removed entirely and the
\* result (plate and score) is that of the plate text alone.
C7_WatermarkInvariant ==
  (vpc = "done" /\ IsPadded) =>
    LET alone == validateMexicanPlate(parts[2])
    IN  /\ cleanText = alone.clean
        /\ plate = alone.plate
        /\ plate # Null => TopScore = alone.sorted[1].score

\* C8: the cleaning chain applied to its own output returns it unchanged.
C8_NormaliseIdempotent ==
  Ran => CleanChain(cleanText) = cleanText

NoiseTokens == {TokPlatesmania, TokWww, TokCom}
Punctuation == {".", ",", "!", "?", ":", ";"}

\* s from position i on is made of watermark tokens in any case,
\* whitespace and punctuation
RECURSIVE NoiseFrom(_, _)
NoiseFrom(s, i) ==
  \/ i > Len(s)
  \/ (s[i] \in Spaces \cup Punctuation /\ NoiseFrom(s, i + 1))
  \/ \E tok \in NoiseTokens : TokenAt(s, i, tok) /\ NoiseFrom(s, i + Len(tok))

\* C9: a text made only of noise has an empty canonical string and no plate.
C9_NoiseOnlyEmpty ==
  (Ran /\ NoiseFrom(text, 1)) => cleanText = <<>> /\ plate = Null

\* C10: a text and its upper-cased form have the same canonical string and
\* the same result; 'ncm-27-04' has the canonical string 'NCM-27-04'.
C10_CaseInsensitive ==
  Ran =>
    LET upper == validateMexicanPlate(toUpperCase(text))
    IN  /\ cleanText = upper.clean
        /\ plate = upper.plate
        /\ toUpperCase(text) = PlateNCMDashed => cleanText = PlateNCMDashed

(***************************************************************************)
(* Properties of detectPlateWithOCR, checked under SpecDetect              *)
(***************************************************************************)
PlateXXX == <<"X","X","X","-","1","1","1","-","A">>
PlateABC == <<"A","B","C","-","1","2","-","3","4">>

Returned == dpc = "done" /\ detection.hasPlate

\* the candidates of every observation that yielded a plate
Pool ==
  UNION { LET c == validateMexicanPlate(ocrResults[j].rawText).pushed
          IN  {c[n] : n \in 1..Len(c)} : j \in 1..Len(ocrResults) }

HasReading(p) == \E j \in 1..Len(ocrResults) : ocrResults[j].plateText = p

\* C4 as claimed: the selected plate has the highest format score of the
\* pool of all observations, whatever their order and confidences; with
\* readings 'XXX-111-A' (80) and 'ABC-12-34' (110), 'ABC-12-34' is selected.
C4_HighestFormatScoreOfPool ==
  Returned =>
    /\ \A c \in Pool : c.score <= Score(detection.plateText)
    /\ (HasReading(PlateXXX) /\ HasReading(PlateABC)) =>
         detection.plateText = PlateABC

\* observation j's confidence is more than 0.1 above every other one's
Dominates(j) ==
  \A k \in 1..Len(ocrResults) :
    k # j => ocrResults[j].confidence - ocrResults[k].confidence > 10

\* C4 amended: format scores rank the candidates within one observation
\* only. The selected plate is the best plate of one observation, reported
\* with that observation's confidence and variant, and an observation whose
\* confidence is more than 0.1 above every other one's is the one selected,
\* whatever the format scores and the order of the observations.
C4_SelectedByConfidence ==
  Returned =>
    /\ \E j \in 1..Len(ocrResults) :
         /\ detection.plateText = validateMexicanPlate(ocrResults[j].rawText).plate
         /\ detection.confidence = ocrResults[j].confidence
         /\ detection.processingMethod = ocrResults[j].source
    /\ \A j \in 1..Len(ocrResults) :
         Dominates(j) =>
           /\ detection.plateText = ocrResults[j].plateText
           /\ detection.confidence = ocrResults[j].confidence
           /\ detection.processingMethod = ocrResults[j].source

\* 'ABC-12-34' (110) was read first at 0.5 and 'XXX-111-A' (80) later at
\* 0.9: 'XXX-111-A' is selected
C4_Witness ==
  /\ Returned
  /\ \E j, k \in 1..Len(ocrResults) :
       /\ ocrResults[j].plateText = PlateXXX /\ ocrResults[j].confidence = 90
       /\ ocrResults[j].source = "escalada"
       /\ ocrResults[k].plateText = PlateABC /\ ocrResults[k].confidence = 50
       /\ ocrResults[k].source = "enfocada"
  /\ detection.plateText = PlateXXX


(***************************************************************************)
(* Short texts and the length window, both variants                        *)
(***************************************************************************)
RECURSIVE TrimStart(_)
TrimStart(s) ==
  IF s # <<>> /\ Head(s) \in Spaces THEN TrimStart(Tail(s)) ELSE s

\* String.prototype.trim
Trim(s) == Reverse(TrimStart(Reverse(TrimStart(s))))

\* the text is null, or its length or its trimmed length is below min
BelowMinimum(t, min) == t = Null \/ Len(t) < min \/ Len(Trim(t)) < min

AnyMatch == \E k \in DOMAIN patMatches : patMatches[k] # <<>>

\* C11: a text that is null, or whose length or trimmed length is below the
\* minimum (6 in the endpoint's validateMexicanPlate, 5 in the standalone
\* one), gives null, and the call does not throw
C11_ShortTextGivesNull ==
  /\ vpc # "threw"
  /\ (vpc = "done" /\ BelowMinimum(text, MinTextLength)) => plate = Null
  /\ (vpc = "standalone" /\ BelowMinimum(text, StandaloneMinTextLength))
       => plate = Null

\* a text of six characters or more that passes the guard, is shorter than
\* six once trimmed, has pattern matches, and still gives null
C11_Witness ==
  /\ vpc = "done"
  /\ text # Null
  /\ Len(text) >= MinTextLength
  /\ Len(Trim(text)) < MinTextLength
  /\ AnyMatch
  /\ plate = Null

\* the matches of all patterns, in discovery order, and those of them whose
\* length lies in lo..hi
AllMatches == Flatten(patMatches)

MatchesWithin(lo, hi) ==
  SelectSeq(AllMatches, LAMBDA m : Len(m) >= lo /\ Len(m) <= hi)

PushedPlates == [j \in 1..Len(pushed) |-> pushed[j].plate]

\* C13 as stated: in either variant the candidates are exactly the matches
\* of length 5 to 10
C13_WindowFiveToTen ==
  vpc \in {"done", "standalone"} => PushedPlates = MatchesWithin(5, 10)

\* C13: the candidates of the endpoint's validator are exactly the matches
\* of length 6 to 10, those of the standalone validator exactly the matches
\* of length 5 to 10; every other match is dropped and every candidate
\* carries a score
C13_WindowPerVariant ==
  /\ vpc = "done" => PushedPlates = MatchesWithin(6, 10)
  /\ vpc = "standalone" => PushedPlates = MatchesWithin(5, 10)
  /\ \A j \in 1..Len(pushed) : pushed[j].score \in Int

\* the endpoint's validator drops a match of length 5 and keeps a longer one
C13_Witness ==
  /\ vpc = "done"
  /\ \E j \in 1..Len(AllMatches) : Len(AllMatches[j]) = 5
  /\ pushed # <<>>
  /\ \A j \in 1..Len(pushed) : Len(pushed[j].plate) >= 6


(***************************************************************************)
(* No candidate, no exception                                              *)
(***************************************************************************)
\* C12: validateMexicanPlate does not throw, and returns null with no
\* candidate for a null, empty or too short text and for a text no pattern
\* matches; detectPlateWithOCR with no validated plate returns hasPlate
\* false, plateText null and an empty allCandidates
C12_NoCandidateNoError ==
  /\ vpc # "threw"
  /\ (vpc = "done" /\ (text = Null \/ Len(text) < MinTextLength \/ ~AnyMatch))
       => (plate = Null /\ candidates = <<>>)
  /\ (dpc = "done" /\ ocrResults = <<>>)
       => /\ detection.hasPlate = FALSE
          /\ detection.plateText = Null
          /\ detection.allCandidates = <<>>

\* all four variants were gone through and none gave a validated plate
C12_Witness ==
  /\ dpc = "done"
  /\ variations = AllVariants
  /\ idx > Len(variations)
  /\ ocrResults = <<>>
  /\ detection = NoPlate


(***************************************************************************)
(* The adjustments of the score                                            *)
(***************************************************************************)
Repeated(c) == <<c, c, c>>

\* the three adjustments as the table states them, each counted once
TableAdjustments(m) ==
    (IF IsSubstring(<<"-">>, m) THEN 10 ELSE 0)
  + (IF \E d \in Digits : IsSubstring(Repeated(d), m) THEN 0 - 20 ELSE 0)
  + (IF \E l \in {"A", "B", "C"} : IsSubstring(Repeated(l), m)
     THEN 0 - 15 ELSE 0)

DashCount(m) == Cardinality({i \in 1..Len(m) : m[i] = "-"})

\* C14: the score of a candidate is its base score plus 10 if it has a
\* dash, minus 20 if it has one of the digit triples 000..999, minus 15 if
\* it has AAA, BBB or CCC, each counted once; nothing else changes it
C14_ThreeAdjustments ==
  vpc = "done" =>
    \A j \in 1..Len(pushed) :
      pushed[j].score = BaseScore(pushed[j].plate)
                        + TableAdjustments(pushed[j].plate)

\* a candidate with two dashes, a digit triple and a penalised letter
\* triple, and another with a letter triple that is not penalised
C14_Witness ==
  /\ vpc = "done"
  /\ \E j \in 1..Len(pushed) :
       /\ DashCount(pushed[j].plate) = 2
       /\ HasTriple(pushed[j].plate, Digits)
       /\ HasTriple(pushed[j].plate, {"A", "B", "C"})
       /\ pushed[j].score = BaseScore(pushed[j].plate) - 25


(***************************************************************************)
(* The range of the score                                                  *)
(***************************************************************************)
\* C15 as stated: some text, here among those with repeated letters and
\* digits, gives a candidate with a negative score, and a candidate that is
\* the only one is returned whatever its score
C15_NegativeScoreReturned ==
  /\ \E p \in TripleParts \cup DigitsFirstParts :
       LET r == validateMexicanPlate(Flatten(p))
       IN  \E j \in 1..Len(r.pushed) : r.pushed[j].score < 0
  /\ (vpc = "done" /\ Len(pushed) = 1) => plate = pushed[1].plate

\* C15: no score is negative (the lowest base is 50, the penalties take at
\* most 35); the score is not clamped, every candidate is ranked, and a
\* candidate that is the only one is returned whatever its score
C15_ScoreKeptAndRanked ==
  vpc = "done" =>
    /\ \A j \in 1..Len(pushed) :
         /\ pushed[j].score >= 15
         /\ pushed[j].score = TableBase(pushed[j].plate)
                              + TableAdjustments(pushed[j].plate)
    /\ Len(candidates) = Len(pushed)
    /\ \A j \in 1..Len(pushed) :
         \E i \in 1..Len(candidates) : candidates[i] = pushed[j]
    /\ Len(pushed) = 1 => plate = pushed[1].plate

\* the only candidate is below the lowest base score, and is returned
C15_Witness ==
  /\ vpc = "done"
  /\ Len(pushed) = 1
  /\ pushed[1].score < 50
  /\ plate = pushed[1].plate


(***************************************************************************)
(* The exact formats of the scoring chain                                  *)
(***************************************************************************)
ExactFormats ==
  <<FmtStandard, FmtLetter, FmtIncomplete, FmtFederal, FmtLegacy, FmtPartial>>

FormatsOf(m) == {k \in 1..Len(ExactFormats) : Exactly(m, ExactFormats[k])}

PlateLegacy == <<"A","B","C","-","1","2","3","4">>

\* C16: every candidate satisfies at most one of the six exact formats, and
\* a candidate that is exactly LLL-?DDDD, such as 'ABC-1234', has base
\* score 80
C16_FormatsExclusive ==
  vpc = "done" =>
    \A j \in 1..Len(pushed) :
      /\ Cardinality(FormatsOf(pushed[j].plate)) <= 1
      /\ Exactly(pushed[j].plate, FmtLegacy)
           => pushed[j].score - TableAdjustments(pushed[j].plate) = 80


(***************************************************************************)
(* The result detectPlateWithOCR selects, checked under SpecDetect         *)
(***************************************************************************)
Primary == "enfocada"

MaxConfidence ==
  CHOOSE c \in {ocrResults[j].confidence : j \in 1..Len(ocrResults)} :
    \A j \in 1..Len(ocrResults) : ocrResults[j].confidence <= c

\* C18: the selected result has the highest confidence, unless it is the
\* primary variant's and less than 0.1 below the highest; so a result of
\* another variant is never selected over one with a higher confidence
C18_HighestOrPrimaryNearTie ==
  (dpc = "done" /\ ocrResults # <<>>) =>
    \/ detection.confidence = MaxConfidence
    \/ /\ detection.processingMethod = Primary
       /\ MaxConfidence - detection.confidence < 10


(***************************************************************************)
(* The handler's selection, checked under SpecRequest                      *)
(***************************************************************************)
\* the results of the vehicle crop, the full image and the bottom half
RegionResults == [k \in 1..NumCalls |-> calls[k].result]

WithPlate == {k \in 1..NumCalls : HasPlate(RegionResults[k])}

WithConfidentPlate ==
  {k \in WithPlate : RegionResults[k].confidence > 10}

\* C17: the handler selects a result with a validated plate and confidence
\* above 0.1; if there is none, a result with a validated plate; if there
\* is none, the result of the full image. The response has hasPlate true
\* exactly when one of the three results has a validated plate
C17_ThreeStageSelection ==
  rpc = "done" =>
    /\ WithConfidentPlate # {}
         => \E k \in WithConfidentPlate : plateDetection = RegionResults[k]
    /\ (WithConfidentPlate = {} /\ WithPlate # {})
         => \E k \in WithPlate : plateDetection = RegionResults[k]
    /\ WithPlate = {} => plateDetection = RegionResults[2]
    /\ response.hasPlate <=> WithPlate # {}

\* the vehicle crop has a plate at confidence 0.1, the full image none, the
\* bottom half a plate above 0.1, which is the one selected
C17_Witness ==
  /\ rpc = "done"
  /\ hasVehicle
  /\ WithPlate = {1, 3}
  /\ WithConfidentPlate = {3}
  /\ plateDetection = RegionResults[3]
  /\ response.hasPlate

\* the ocrResults of one call run alone on its outputs
RECURSIVE ReadAll(_, _, _, _)
ReadAll(out, names, i, acc) ==
  IF i > Len(names) THEN acc
  ELSE LET r == out.readings[i]
           validatedPlate == IF r.failed THEN Null
                             ELSE validateMexicanPlate(r.text).plate
       IN  ReadAll(out, names, i + 1,
                   IF validatedPlate # Null
                   THEN Append(acc, [plateText |-> validatedPlate,
                                     confidence |-> r.confidence,
                                     rawText |-> r.text,
                                     source |-> names[i]])
                   ELSE acc)

RunAlone(k) ==
  IF k = 1 /\ ~hasVehicle THEN Nothing
  ELSE LET names == IF outputs[k].prepOk THEN AllVariants
                    ELSE FallbackVariants
       IN  DetectionOf(Sort(ReadAll(outputs[k], names, 1, <<>>), "ocr"))

OneAfterAnother ==
  SelectDetection([k \in 1..NumCalls |-> RunAlone(k)])

\* C19: with the outputs of the three calls fixed, the plate, confidence
\* and processing method the handler chooses are those of running the calls
\* one after another, whatever the interleaving of their steps and the
\* order in which they settle
C19_SameForEverySettleOrder ==
  rpc = "done" =>
    /\ plateDetection.plateText = OneAfterAnother.plateText
    /\ plateDetection.confidence = OneAfterAnother.confidence
    /\ plateDetection.processingMethod = OneAfterAnother.processingMethod
    /\ response.plateText = OneAfterAnother.plateText
    /\ response.plateConfidence = OneAfterAnother.confidence
    /\ response.processingMethod = OneAfterAnother.processingMethod

\* the bottom half settles first and the vehicle crop last, both have a
\* plate above 0.1, the plates differ, and the vehicle crop's is chosen
C19_Witness ==
  /\ rpc = "done"
  /\ settled = <<3, 2, 1>>
  /\ {1, 3} \subseteq WithConfidentPlate
  /\ RegionResults[1].plateText # RegionResults[3].plateText
  /\ plateDetection = RegionResults[1]


(***************************************************************************)
(* Repeated calls, checked under SpecCalls                                 *)
(***************************************************************************)
\* C20: after any sequence of calls on the same module, the call just made
\* returned what a first call on a freshly loaded module returns for its
\* text, and no regex keeps a lastIndex
C20_SameAsFirstCall ==
  ncalls > 0 =>
    /\ plate = validateOnModule(text, FreshLastIndex).plate
    /\ candidates = validateOnModule(text, FreshLastIndex).sorted
    /\ lastIndex = FreshLastIndex

\* a later call finds a plate with the regexes that earlier calls used
C20_Witness ==
  /\ ncalls >= 2
  /\ AnyMatch
  /\ plate # Null


Registered == MapValues(clients)

ReceivedCast(ss, n) == {i \in 1..Len(ss) : n \in ss[i].received}

C21_OneEntryPerCallAsGiven ==
  /\ Len(logs) = Len(logCalls)
  /\ \A i \in 1..Len(logs) :
       /\ logs[i].message = logCalls[i].message
       /\ logs[i].type = logCalls[i].type
       /\ logs[i].sessionId = LoggerSession

\* the processed images that were saved, as positions in saves
Saved == {k \in 1..Len(saves) : saves[k].pc = "saved"}

\* C29: the processed images saved in one session have distinct filenames:
\* processedImages holds no filename twice, and the file of every saved
\* image still holds what that save wrote
C29_DistinctFilenames ==
  /\ \A i, j \in 1..Len(processedImages) :
       i # j => processedImages[i].filename # processedImages[j].filename
  /\ \A k \in Saved : processingDir[saves[k].filename] = k


(***************************************************************************)
(* The temporary files of a request, checked under SpecFiles               *)
(***************************************************************************)
\* the temporary files a call has written and not yet deleted itself
InUse(k) ==
  IF ocr[k].pc = "done"
    THEN {}
    ELSE ocr[k].written \
           (IF ocr[k].pc = "unlink"
              THEN {ocr[k].tempFiles[j] : j \in 1..(ocr[k].i - 1)}
              ELSE {})

\* C23: while a detectPlateWithOCR call has not finished, every temporary
\* file it has written and not deleted itself is in /tmp and holds what
\* that call wrote: no other call of the request overwrote or deleted it,
\* and no call reads a file of another
C23_DisjointTempFiles ==
  /\ \A k \in DOMAIN ocr : \A f \in InUse(k) : f \in DOMAIN tmp /\ tmp[f] = k
  /\ \A k \in DOMAIN ocr : ~ocr[k].foreign

\* C26: when a detectPlateWithOCR call has returned, no file that the call
\* wrote is left in /tmp
C26_NoTempFileLeft ==
  \A k \in DOMAIN ocr :
    ocr[k].pc = "done" => \A f \in DOMAIN tmp : tmp[f] # k


(***************************************************************************)
(* The upload after the request, checked under SpecUpload                  *)
(***************************************************************************)
\* C27: once a request handler has returned its response or thrown its
\* error, the image the request uploaded is no longer in /tmp
C27_UploadDeleted ==
  \A r \in 1..Len(handler) :
    handler[r].pc \in {"responded", "failed"} => UploadPath(r) \notin DOMAIN tmp


(***************************************************************************)
(* The vehicle-detection model, checked under SpecLoad                     *)
(***************************************************************************)
\* C24: cocoSsd.load is invoked at most once, and every call of
\* loadCarDetectionModel that has returned got the same instance
C24_LoadedOnce ==
  /\ loads <= 1
  /\ \A c, d \in DOMAIN loaders :
       (loaders[c].pc = "returned" /\ loaders[d].pc = "returned")
         => loaders[c].result = loaders[d].result


(***************************************************************************)
(* The crop rectangle, checked under SpecCrop                              *)
(***************************************************************************)
\* C28: a rectangle that is handed to extract lies inside the image: left
\* and top are not negative, left + width is at most the width of the
\* image and top + height at most its height
C28_RectangleInsideImage ==
  (cropParams # Nothing /\ Extracts(cropParams)) =>
    /\ cropParams.left >= 0
    /\ cropParams.top >= 0
    /\ cropParams.left + cropParams.width <= imageMetadata.width
    /\ cropParams.top + cropParams.height <= imageMetadata.height


(***************************************************************************)
(* The selection of the page, checked under SpecPage                       *)
(***************************************************************************)
\* no fetch and no FileReader is still to complete
AllCompleted == \A p \in DOMAIN pending : pending[p].pc # "pending"

\* C30: once every fetch has completed, selectedFile and selectedFileName
\* are those of the most recent action: null after clearSelection, the
\* uploaded file after processFile, the gallery image after a
\* selectImageFromGallery whose fetch resolved
C30_SelectionIsTheLatest ==
  AllCompleted =>
    /\ latest.action = "clear" =>
         selectedFile = Nothing /\ selectedFileName = "null"
    /\ (\/ latest.action = "upload"
        \/ latest.action = "gallery" /\ pending[latest.op].pc = "done") =>
         /\ selectedFile # Nothing
         /\ selectedFile.name = latest.name
         /\ selectedFileName = latest.name

====
